---- MODULE Spec2Model ----
(***************************************************************************)
(* Edit-proposal pipeline of the Google Drive web app:                     *)
(*   functions/src/index.ts               fixCommonJsonIssues, chatHttp,   *)
(*                                        railwayProxyHttp,                *)
(*                                        googleDriveOperations,           *)
(*                                        exchangeOAuthCode                *)
(*   functions/src/response-validator.ts  validateAndFixResponse           *)
(*   functions/src/response-processor.ts  processAIResponse and its passes *)
(*   src/app/api/chat/route.ts            POST                             *)
(*   src/components/ChatPanel.tsx         sendMessage                      *)
(*   src/app/page.tsx                     handleFileSelect,                *)
(*                                        loadDocumentContent,             *)
(*                                        handleAcceptEdit,                *)
(*                                        handleRejectEdit,                *)
(*                                        findTextWithFuzzyMatching        *)
(*   unnamed/part_005 (FileList)          loadFiles, the load effect       *)
(*                                                                         *)
(* Nine specifications share the variables; each starts the parts it does  *)
(* not run in their idle state:                                            *)
(*   SpecRepair    fixCommonJsonIssues on one input, applied twice         *)
(*   SpecHttp      chatHttp on one request                                 *)
(*   SpecChat      a chat session: messages, replies, Accept, Reject,      *)
(*                 file selection, with the endpoints behind them          *)
(*   SpecApply     a session with a proposal shown: Accept and Reject      *)
(*   SpecEndpoints one request at one of the four HTTP endpoints           *)
(*   SpecFiles     FileList: sign-in, the load effect, Refresh, the        *)
(*                 debounce timeout, sign-out, unmount                     *)
(*   SpecDrive     googleDriveOperations on one request                    *)
(*   SpecPipeline  processAIResponse on one response                       *)
(*   SpecLocator   findTextWithFuzzyMatching on one document and text      *)
(*                                                                         *)
(* A JavaScript string is a sequence of characters.  A character is a      *)
(* one-character TLA+ string; a few fixed words (the code fence, "json",   *)
(* "response", "edit", ...) are carried as one element each, so that a     *)
(* reply holding them stays short.  Such a word is never split, which      *)
(* restricts the inputs to texts in which backticks come in threes and     *)
(* the words the code searches for are not spelled letter by letter.       *)
(***************************************************************************)
EXTENDS Integers, Sequences, FiniteSets, TLC

\* ------------------------------------------------------------ characters

LBRACE == "{"
RBRACE == "}"
LBRACKET == "["
RBRACKET == "]"
QUOTE == "\""
BACKSLASH == "\\"
COMMA == ","
COLON == ":"
NL == "\n"
CR == "\r"
TAB == "\t"
SPACE == " "
\* Three backticks, the fence of a markdown code block.
FENCE == "FENCE"
JSONTAG == "json"

\* \s of a JavaScript regular expression and String.prototype.trim, within
\* the characters of the model; JSON's insignificant whitespace is the same set.
WhiteSpace == {SPACE, NL, CR, TAB}

\* Characters JSON.parse refuses unescaped inside a string literal.
ControlChars == {NL, CR, TAB}

Digits == {"0", "1"}

Literals == {"null", "true", "false"}

\* The escapes \" \\ \n \r \t of a JSON string literal: what follows the backslash.
EscapeChars == {QUOTE, BACKSLASH, "n", "r", "t"}

Unescape(c) ==
  CASE c = "n" -> NL
    [] c = "r" -> CR
    [] c = "t" -> TAB
    [] OTHER -> c

\* ------------------------------------------------------------ strings

\* s.substring(from - 1, to) in 1-based positions; empty when to < from.
Slice(s, from, to) == IF to < from THEN <<>> ELSE SubSeq(s, from, to)

\* Number of leading characters of s that are whitespace.
RECURSIVE LeadingWs(_, _)
LeadingWs(s, i) ==
  IF i <= Len(s) /\ s[i] \in WhiteSpace THEN LeadingWs(s, i + 1) ELSE i - 1

\* Position of the last character of s that is not whitespace (0 if none).
RECURSIVE LastNonWs(_, _)
LastNonWs(s, i) ==
  IF i >= 1 /\ s[i] \in WhiteSpace THEN LastNonWs(s, i - 1) ELSE i

\* String.prototype.trim
Trim(s) == Slice(s, LeadingWs(s, 1) + 1, LastNonWs(s, Len(s)))

\* Number of occurrences of character c in s: (s.match(/c/g) || []).length
CountChar(s, c) == Cardinality({i \in 1..Len(s) : s[i] = c})

\* n copies of character c.
Repeat(c, n) == [k \in 1..n |-> c]

\* s.indexOf(c) as a 1-based position, 0 when c does not occur.
IndexOf(s, c) ==
  LET at == {i \in 1..Len(s) : s[i] = c}
  IN IF at = {} THEN 0 ELSE CHOOSE i \in at : \A k \in at : i <= k

\* s.lastIndexOf(c) as a 1-based position, 0 when c does not occur.
LastIndexOf(s, c) ==
  LET at == {i \in 1..Len(s) : s[i] = c}
  IN IF at = {} THEN 0 ELSE CHOOSE i \in at : \A k \in at : i >= k

\* ------------------------------------------------------------ JSON.parse
\* A parsed value is a record [t, v]:
\*   string  v = its characters          number  v = its digits
\*   object  v = its <<key, value>> members in order of appearance
\*   array   v = its elements            null, boolean  v = the literal
\* A step of the parser returns [ok, val, next]: next is the position after
\* what was read.  strict = FALSE reads the text as JSON.parse would if literal
\* newlines were allowed inside string literals (used to state which inputs
\* are "well-formed except for literal newlines"); strict = TRUE is JSON.parse.

ParseFail == [ok |-> FALSE, val |-> [t |-> "none", v |-> <<>>], next |-> 0]

ParseOk(val, next) == [ok |-> TRUE, val |-> val, next |-> next]

RECURSIVE SkipWs(_, _)
SkipWs(s, i) ==
  IF i <= Len(s) /\ s[i] \in WhiteSpace THEN SkipWs(s, i + 1) ELSE i

\* The characters of a string literal from position j (after the opening quote).
RECURSIVE ParseStringBody(_, _, _, _)
ParseStringBody(s, j, acc, strict) ==
  IF j > Len(s) THEN ParseFail
  ELSE IF s[j] = QUOTE THEN ParseOk([t |-> "string", v |-> acc], j + 1)
  ELSE IF s[j] = BACKSLASH
    THEN IF j + 1 <= Len(s) /\ s[j + 1] \in EscapeChars
           THEN ParseStringBody(s, j + 2, Append(acc, Unescape(s[j + 1])), strict)
           ELSE ParseFail
  ELSE IF s[j] \in ControlChars /\ (strict \/ s[j] # NL) THEN ParseFail
  ELSE ParseStringBody(s, j + 1, Append(acc, s[j]), strict)

\* A number: 0, or a nonzero digit followed by digits.
RECURSIVE ParseDigits(_, _, _)
ParseDigits(s, j, acc) ==
  IF j <= Len(s) /\ s[j] \in Digits
    THEN ParseDigits(s, j + 1, Append(acc, s[j]))
    ELSE ParseOk([t |-> "number", v |-> acc], j)

ParseNumber(s, j) ==
  IF s[j] = "0" THEN ParseOk([t |-> "number", v |-> <<"0">>], j + 1)
  ELSE ParseDigits(s, j, <<>>)

\* An object's members with key set to val: a repeated key keeps its place
\* and takes the later value, as a JavaScript object does.
SetMember(members, key, val) ==
  IF \E k \in 1..Len(members) : members[k][1] = key
    THEN [k \in 1..Len(members) |->
            IF members[k][1] = key THEN <<key, val>> ELSE members[k]]
    ELSE Append(members, <<key, val>>)

RECURSIVE ParseValue(_, _, _)
RECURSIVE ParseMembers(_, _, _, _)
RECURSIVE ParseElements(_, _, _, _)

\* Members of an object from position j, which holds the quote opening a key.
ParseMembers(s, j, acc, strict) ==
  IF j > Len(s) \/ s[j] # QUOTE THEN ParseFail
  ELSE LET key == ParseStringBody(s, j + 1, <<>>, strict)
           c == SkipWs(s, key.next)
       IN IF ~key.ok \/ c > Len(s) \/ s[c] # COLON THEN ParseFail
          ELSE LET val == ParseValue(s, c + 1, strict)
                   e == SkipWs(s, val.next)
                   members == SetMember(acc, key.val.v, val.val)
               IN IF ~val.ok \/ e > Len(s) THEN ParseFail
                  ELSE IF s[e] = RBRACE
                    THEN ParseOk([t |-> "object", v |-> members], e + 1)
                  ELSE IF s[e] = COMMA
                    THEN ParseMembers(s, SkipWs(s, e + 1), members, strict)
                  ELSE ParseFail

\* Elements of an array from position j, which holds the start of an element.
ParseElements(s, j, acc, strict) ==
  LET val == ParseValue(s, j, strict)
      e == SkipWs(s, val.next)
      elements == Append(acc, val.val)
  IN IF ~val.ok \/ e > Len(s) THEN ParseFail
     ELSE IF s[e] = RBRACKET THEN ParseOk([t |-> "array", v |-> elements], e + 1)
     ELSE IF s[e] = COMMA THEN ParseElements(s, e + 1, elements, strict)
     ELSE ParseFail

ParseValue(s, i, strict) ==
  LET j == SkipWs(s, i)
  IN IF j > Len(s) THEN ParseFail
     ELSE IF s[j] = QUOTE THEN ParseStringBody(s, j + 1, <<>>, strict)
     ELSE IF s[j] \in Digits THEN ParseNumber(s, j)
     ELSE IF s[j] \in Literals
       THEN ParseOk([t |-> IF s[j] = "null" THEN "null" ELSE "boolean",
                     v |-> <<s[j]>>], j + 1)
     ELSE IF s[j] = LBRACE
       THEN LET k == SkipWs(s, j + 1)
            IN IF k <= Len(s) /\ s[k] = RBRACE
                 THEN ParseOk([t |-> "object", v |-> <<>>], k + 1)
                 ELSE ParseMembers(s, k, <<>>, strict)
     ELSE IF s[j] = LBRACKET
       THEN LET k == SkipWs(s, j + 1)
            IN IF k <= Len(s) /\ s[k] = RBRACKET
                 THEN ParseOk([t |-> "array", v |-> <<>>], k + 1)
                 ELSE ParseElements(s, k, <<>>, strict)
     ELSE ParseFail

\* r, the value parsed at the start of s, when only whitespace follows it.
WholeText(s, r) == IF r.ok /\ SkipWs(s, r.next) > Len(s) THEN r ELSE ParseFail

\* The whole text is one value with whitespace around it.
ParseText(s, strict) == WholeText(s, ParseValue(s, 1, strict))

\* JSON.parse(s): ok = FALSE stands for the SyntaxError it throws.
JSONParse(s) == ParseText(s, TRUE)

\* ------------------------------------------------------------ JavaScript values

\* undefined: a property that is absent.
Undefined == [t |-> "undefined", v |-> <<>>]

StringValue(chars) == [t |-> "string", v |-> chars]

ObjectValue(members) == [t |-> "object", v |-> members]

\* value.key as JavaScript evaluates it on an object, array, string, number
\* or boolean (on null it throws, which the callers test first).
Get(value, key) ==
  IF value.t = "object" /\ \E k \in 1..Len(value.v) : value.v[k][1] = key
    THEN value.v[CHOOSE k \in 1..Len(value.v) : value.v[k][1] = key][2]
    ELSE Undefined

\* Whether a value counts as true in a condition.
Truthy(value) ==
  CASE value.t = "string" -> value.v # <<>>
    [] value.t = "number" -> \E k \in 1..Len(value.v) : value.v[k] # "0"
    [] value.t = "boolean" -> value.v = <<"true">>
    [] value.t \in {"object", "array"} -> TRUE
    [] OTHER -> FALSE

\* ------------------------------------------------------------ fixCommonJsonIssues

\* Fix 1, the loop over the characters of fixed (index.ts 54-89): result is
\* fixed with the newlines, carriage returns and tabs met inside a string
\* literal escaped; inString tells whether the scan ended inside one.
RECURSIVE EscapeScan(_, _, _, _, _)
EscapeScan(fixed, i, result, inString, backslashCount) ==
  CASE i > Len(fixed) -> [result |-> result, inString |-> inString]
    [] i <= Len(fixed) /\ fixed[i] = BACKSLASH ->
         EscapeScan(fixed, i + 1, Append(result, fixed[i]), inString,
                    backslashCount + 1)
    [] i <= Len(fixed) /\ fixed[i] = QUOTE ->
         \* isEscaped: an odd number of backslashes before the quote
         EscapeScan(fixed, i + 1, Append(result, fixed[i]),
                    IF backslashCount % 2 = 1 THEN inString ELSE ~inString, 0)
    [] i <= Len(fixed) /\ inString /\ fixed[i] = NL ->
         EscapeScan(fixed, i + 1, result \o <<BACKSLASH, "n">>, inString, 0)
    [] i <= Len(fixed) /\ inString /\ fixed[i] = CR ->
         EscapeScan(fixed, i + 1, result \o <<BACKSLASH, "r">>, inString, 0)
    [] i <= Len(fixed) /\ inString /\ fixed[i] = TAB ->
         EscapeScan(fixed, i + 1, result \o <<BACKSLASH, "t">>, inString, 0)
    [] OTHER -> EscapeScan(fixed, i + 1, Append(result, fixed[i]), inString, 0)

\* Fix 1 with the closing quote added when the scan ends inside a string.
EscapeControlChars(fixed) ==
  LET scan == EscapeScan(fixed, 1, <<>>, FALSE, 0)
  IN IF scan.inString THEN Append(scan.result, QUOTE) ELSE scan.result

\* Fix 2: the closers appended, from the counts of all four characters
\* anywhere in the buffer.
CloseUnclosed(fixed) ==
  LET openBraces == CountChar(fixed, LBRACE)
      closeBraces == CountChar(fixed, RBRACE)
      openBrackets == CountChar(fixed, LBRACKET)
      closeBrackets == CountChar(fixed, RBRACKET)
  IN fixed \o Repeat(RBRACE, openBraces - closeBraces)
           \o Repeat(RBRACKET, openBrackets - closeBrackets)

\* Fix 3: fixed.replace(/,(\s*[}\]])/g, '$1').  A match holds one comma,
\* whitespace and one closer, so matches never overlap and a comma is removed
\* exactly when whitespace and then a closer follow it.
CommaBeforeCloser(fixed, i) ==
  /\ fixed[i] = COMMA
  /\ SkipWs(fixed, i + 1) <= Len(fixed)
  /\ fixed[SkipWs(fixed, i + 1)] \in {RBRACE, RBRACKET}

RemoveTrailingCommas(fixed) ==
  LET kept == {i \in 1..Len(fixed) : ~CommaBeforeCloser(fixed, i)}
      nth(k) == CHOOSE i \in kept : Cardinality({m \in kept : m <= i}) = k
  IN [k \in 1..Cardinality(kept) |-> fixed[nth(k)]]

\* The three fixes in the order of the code, on the trimmed input.
ApplyFixes(jsonString) ==
  RemoveTrailingCommas(CloseUnclosed(EscapeControlChars(Trim(jsonString))))

\* A repair that returns the patched buffer without the final parse probe.
fixCommonJsonIssues_NoFinalProbe(jsonString) ==
  IF JSONParse(jsonString).ok THEN jsonString ELSE ApplyFixes(jsonString)

\* A repair that trims before the first parse probe and returns the trimmed text.
fixCommonJsonIssues_TrimFirst(jsonString) ==
  IF JSONParse(jsonString).ok THEN Trim(jsonString)
  ELSE LET fixed == ApplyFixes(jsonString)
       IN IF JSONParse(fixed).ok THEN fixed ELSE jsonString

\* Lines 121-131: the patched buffer if it parses, the argument otherwise.
FinalProbe(fixed, jsonString) == IF JSONParse(fixed).ok THEN fixed ELSE jsonString

fixCommonJsonIssues(jsonString) ==
  IF JSONParse(jsonString).ok THEN jsonString
  ELSE FinalProbe(ApplyFixes(jsonString), jsonString)

\* ------------------------------------------------------------ chatHttp

\* What res.status(status).json(body) or res.json(body) sends.
HttpResponse(status, body) == [status |-> status, body |-> body]

\* The body { error: text }.
ErrorBody(text) == ObjectValue(<< <<<<"error">>, StringValue(<<text>>)>> >>)

\* The body { response }: the plain-text form of a reply.
PlainTextBody(response) ==
  ObjectValue(<< <<<<"response">>, StringValue(response)>> >>)

\* One attempt of /```(?:json)?\s*(\{[\s\S]*?\})\s*```/ with the opening
\* fence at position i: <<from, to>> of the captured group, <<0, 0>> if the
\* pattern does not match there.  The lazy group ends at the first closing
\* brace after which only whitespace separates it from a fence.
FenceMatchAt(s, i) ==
  LET afterTag == IF i + 1 <= Len(s) /\ s[i + 1] = JSONTAG THEN i + 2 ELSE i + 1
      from == SkipWs(s, afterTag)
      ends == {k \in (from + 1)..Len(s) :
                 /\ s[k] = RBRACE
                 /\ SkipWs(s, k + 1) <= Len(s)
                 /\ s[SkipWs(s, k + 1)] = FENCE}
  IN IF s[i] = FENCE /\ from <= Len(s) /\ s[from] = LBRACE /\ ends # {}
       THEN <<from, CHOOSE k \in ends : \A m \in ends : k <= m>>
       ELSE <<0, 0>>

\* cleanResponse.match(...) : the leftmost match, <<0, 0>> for null.
JsonMatch(s) ==
  LET starts == {i \in 1..Len(s) : FenceMatchAt(s, i) # <<0, 0>>}
  IN IF starts = {} THEN <<0, 0>>
     ELSE FenceMatchAt(s, CHOOSE i \in starts : \A m \in starts : i <= m)

\* s.replace(/\s*```$/, ''): a fence ending the string goes, with the
\* whitespace before it.
StripClosingFence(s) ==
  IF s # <<>> /\ s[Len(s)] = FENCE
    THEN Slice(s, 1, LastNonWs(s, Len(s) - 1))
    ELSE s

\* Lines 910-916, for jsonMatch, the result of the match of line 909.
Extracted(cleanResponse, jsonMatch) ==
  IF jsonMatch # <<0, 0>>
    THEN Slice(cleanResponse, jsonMatch[1], jsonMatch[2])
  ELSE IF Len(cleanResponse) >= 2 /\ cleanResponse[1] = FENCE
          /\ cleanResponse[2] = JSONTAG
    THEN StripClosingFence(
           Slice(cleanResponse, SkipWs(cleanResponse, 3), Len(cleanResponse)))
  ELSE IF cleanResponse # <<>> /\ cleanResponse[1] = FENCE
    THEN StripClosingFence(
           Slice(cleanResponse, SkipWs(cleanResponse, 2), Len(cleanResponse)))
  ELSE cleanResponse

\* Lines 909-916: the text taken out of a markdown code block.
ExtractFromCodeBlock(cleanResponse) == Extracted(cleanResponse, JsonMatch(cleanResponse))

\* s.replace(/```json\s*/g, ''): every fence tagged json goes, with the
\* whitespace after it.
\* Position i lies in a match: it holds a tagged fence, its tag, or
\* whitespace that follows one.
InJsonFence(s, i) ==
  \E f \in 1..i :
    /\ f + 1 <= Len(s) /\ s[f] = FENCE /\ s[f + 1] = JSONTAG
    /\ i < SkipWs(s, f + 2)

RemoveJsonFences(s) ==
  LET kept == {i \in 1..Len(s) : ~InJsonFence(s, i)}
      nth(k) == CHOOSE i \in kept : Cardinality({m \in kept : m <= i}) = k
  IN [k \in 1..Cardinality(kept) |-> s[nth(k)]]

\* s.replace(/```\s*$/g, ''): a fence with only whitespace after it goes,
\* with that whitespace.
RemoveTrailingFence(s) ==
  LET last == LastNonWs(s, Len(s))
  IN IF last >= 1 /\ s[last] = FENCE THEN Slice(s, 1, last - 1) ELSE s

\* What an attempt to read the reply as JSON comes to: threw stands for
\* the exception that leaves its try block (JSON.parse's SyntaxError, or
\* the TypeError of reading .response of null), isEdit for the test of
\* lines 928 and 954, parsedResponse for the parsed reply.
Threw(threw) == [threw |-> threw, isEdit |-> FALSE, parsedResponse |-> Undefined]

Parsed(parsedResponse) ==
  [threw |-> FALSE,
   isEdit |-> Truthy(Get(parsedResponse, <<"response">>))
                /\ Truthy(Get(parsedResponse, <<"edit">>)),
   parsedResponse |-> parsedResponse]

\* Lines 924-932, for the result of JSON.parse.
DirectParsed(parsed) ==
  IF ~parsed.ok \/ parsed.val.t = "null" THEN Threw(TRUE) ELSE Parsed(parsed.val)

\* Lines 904-932, the direct attempt.
DirectAttempt(response) ==
  DirectParsed(JSONParse(fixCommonJsonIssues(ExtractFromCodeBlock(Trim(response)))))

\* Lines 947-948 for the two positions; found = FALSE when the test of
\* line 947 fails.
Braces(aggressiveFix, firstBrace, lastBrace) ==
  IF firstBrace # 0 /\ lastBrace # 0 /\ lastBrace > firstBrace
    THEN [found |-> TRUE, text |-> Slice(aggressiveFix, firstBrace, lastBrace)]
    ELSE [found |-> FALSE, text |-> <<>>]

\* Lines 944-948.
BraceSpanOf(aggressiveFix) ==
  Braces(aggressiveFix, IndexOf(aggressiveFix, LBRACE), LastIndexOf(aggressiveFix, RBRACE))

\* Lines 939-949: the text between the first opening and the last closing
\* brace of the reply without its fences.
BraceSpan(response) == BraceSpanOf(RemoveTrailingFence(RemoveJsonFences(Trim(response))))

\* Lines 950-960, for the result of JSON.parse.
AggressiveParsed(parsed) == IF ~parsed.ok THEN Threw(TRUE) ELSE Parsed(parsed.val)

\* Lines 944-960, for the span of the braces.
AggressiveSpan(span) ==
  IF ~span.found THEN Threw(FALSE)
  ELSE AggressiveParsed(JSONParse(fixCommonJsonIssues(span.text)))

\* Lines 938-965, the attempt made in the catch block.
AggressiveAttempt(response) == AggressiveSpan(BraceSpan(response))

\* Reply handling in which a failure of the second attempt is not caught
\* and reaches the handler's outer catch.
ReplyToResponse_Uncaught(response) ==
  LET direct == DirectAttempt(response)
      aggressive == AggressiveAttempt(response)
  IN IF ~direct.threw
       THEN IF direct.isEdit THEN HttpResponse(200, direct.parsedResponse)
            ELSE HttpResponse(200, PlainTextBody(response))
     ELSE IF aggressive.threw
       THEN HttpResponse(500, ErrorBody("Failed to generate response"))
     ELSE IF aggressive.isEdit THEN HttpResponse(200, aggressive.parsedResponse)
     ELSE HttpResponse(200, PlainTextBody(response))

\* What is sent for an attempt that did not throw.
Answer(response, attempt) ==
  IF attempt.isEdit THEN HttpResponse(200, attempt.parsedResponse)
  ELSE HttpResponse(200, PlainTextBody(response))

\* The catch block of lines 934-972, taken when the direct attempt threw.
Caught(response, direct) ==
  IF ~direct.threw THEN Answer(response, direct)
  ELSE Answer(response, AggressiveAttempt(response))

\* Lines 902-972: what chatHttp answers for the model's reply.
ReplyToResponse(response) == Caught(response, DirectAttempt(response))

\* Lines 333-977: the handler.  req = [method, authorization, message];
\* authorization is "missing" (no Bearer header), "invalid" (verifyIdToken
\* rejects the token) or "valid"; model = [threw, reply] is what callAIModel
\* does when it is called.
chatHttp(req, model) ==
  IF req.method = "OPTIONS" THEN HttpResponse(204, Undefined)
  ELSE IF req.authorization = "missing"
    THEN HttpResponse(401, ErrorBody("Authorization header required"))
  ELSE IF req.authorization = "invalid"
    THEN HttpResponse(401, ErrorBody("Invalid authentication token"))
  ELSE IF req.method # "POST" THEN HttpResponse(405, ErrorBody("Method not allowed"))
  ELSE IF ~req.message THEN HttpResponse(400, ErrorBody("Message is required"))
  ELSE IF model.threw THEN HttpResponse(500, ErrorBody("Failed to generate response"))
  ELSE ReplyToResponse(model.reply)

\* Whether the handler reaches the call of callAIModel.
CallsModel(req) ==
  req.method = "POST" /\ req.authorization = "valid" /\ req.message

\* ------------------------------------------------------------ repair inputs

\* Longest text drawn from every sequence over RepairChars.
MaxLen == 3

\* Most units (a character or an escape pair) in a generated string literal.
MaxUnits == 2

\* Most closing braces cut from the tail of a generated text.
MaxDrop == 2

RepairChars ==
  {LBRACE, RBRACE, LBRACKET, RBRACKET, QUOTE, BACKSLASH, COMMA, COLON,
   NL, TAB, SPACE, "1", "n"}

\* Every sequence over S of length at most n.
RECURSIVE SeqsUpTo(_, _)
SeqsUpTo(S, n) ==
  IF n = 0 THEN {<<>>}
  ELSE LET shorter == SeqsUpTo(S, n - 1)
       IN shorter \cup {Append(t, c) : t \in shorter, c \in S}

\* What a string literal of a generated text is made of: plain characters,
\* characters that are closers or commas elsewhere, a raw newline, and the
\* escapes of a newline, a quote and a backslash.
StringUnits ==
  {<<"a">>, <<LBRACE>>, <<RBRACE>>, <<COMMA>>, <<NL>>,
   <<BACKSLASH, "n">>, <<BACKSLASH, QUOTE>>, <<BACKSLASH, BACKSLASH>>}

RECURSIVE Flatten(_)
Flatten(ss) == IF ss = <<>> THEN <<>> ELSE Head(ss) \o Flatten(Tail(ss))

StringLiterals ==
  {<<QUOTE>> \o Flatten(us) \o <<QUOTE>> : us \in SeqsUpTo(StringUnits, MaxUnits)}

\* JSON texts around one string literal: alone, in an array, as a member's
\* value (with and without a trailing comma), as a key, and two objects deep.
Documents ==
  UNION {
    { lit,
      <<LBRACKET>> \o lit \o <<RBRACKET>>,
      <<LBRACE, QUOTE, "a", QUOTE, COLON>> \o lit \o <<RBRACE>>,
      <<LBRACE, QUOTE, "a", QUOTE, COLON>> \o lit \o <<COMMA, RBRACE>>,
      <<LBRACE>> \o lit \o <<COLON, "1", RBRACE>>,
      <<LBRACE, QUOTE, "a", QUOTE, COLON, LBRACE>> \o lit
         \o <<COLON, LBRACKET, "1", RBRACKET, RBRACE, RBRACE>>
    } : lit \in StringLiterals }

\* t without its last n characters when each of them is a closing brace,
\* as a reply cut off at its tail; t itself otherwise.
Truncate(t, n) ==
  IF n <= Len(t) /\ \A k \in (Len(t) - n + 1)..Len(t) : t[k] = RBRACE
    THEN SubSeq(t, 1, Len(t) - n)
    ELSE t

Paddings == {<<<<>>, <<>>>>, <<<<SPACE>>, <<NL>>>>}

RepairInputs ==
  SeqsUpTo(RepairChars, MaxLen)
    \cup {pad[1] \o Truncate(t, n) \o pad[2] :
            t \in Documents, n \in 0..MaxDrop, pad \in Paddings}

\* ------------------------------------------------------------ model replies

\* "chars" as a JSON string literal (chars holds nothing to escape).
Str(chars) == <<QUOTE>> \o chars \o <<QUOTE>>

\* "key":valueText
Member(key, valueText) == Str(<<key>>) \o <<COLON>> \o valueText

\* {m1,m2,...} for the member texts ms.
RECURSIVE JoinMembers(_)
JoinMembers(ms) ==
  IF ms = <<>> THEN <<>>
  ELSE IF Len(ms) = 1 THEN ms[1]
  ELSE ms[1] \o <<COMMA>> \o JoinMembers(Tail(ms))

Obj(ms) == <<LBRACE>> \o JoinMembers(ms) \o <<RBRACE>>

\* Texts a model writes as newContent: plain, with a brace, and with a
\* fenced code block in it.
NewContents ==
  {<<"a">>, <<"a", LBRACE>>, <<FENCE, LBRACE, RBRACE, FENCE>>, <<"a", RBRACE, FENCE>>}

\* The edit objects of well-formed edit replies.
EditTexts ==
  {Obj(<<Member("type", Str(<<"replace">>)), Member("findText", Str(<<"a">>)),
         Member("replaceText", Str(<<"b">>))>>)}
    \cup {Obj(<<Member("type", Str(<<"rewrite">>)), Member("newContent", Str(c))>>) :
            c \in NewContents}

\* {"response":"ok","edit":{...}}
EditObjects ==
  {Obj(<<Member("response", Str(<<"ok">>)), Member("edit", e)>>) : e \in EditTexts}

\* Prose before and after the object.
ProseBefore == {<<>>, <<"Sure", COLON, NL>>, <<"use", SPACE, LBRACE, "x", RBRACE, NL>>}

ProseAfter == {<<>>, <<NL, "Done">>, <<NL, LBRACE, RBRACE>>}

\* <<opening, closing>>: no fence, a bare fence, a fence tagged json.
CodeFences ==
  {<<<<>>, <<>>>>, <<<<FENCE, NL>>, <<NL, FENCE>>>>, <<<<FENCE, JSONTAG, NL>>, <<NL, FENCE>>>>}

\* Replies that hold one well-formed edit object; object is that object.
EditReplies ==
  {[threw |-> FALSE, reply |-> pre \o f[1] \o o \o f[2] \o post, object |-> o] :
     pre \in ProseBefore, f \in CodeFences, o \in EditObjects, post \in ProseAfter}

\* Replies that hold no whole edit object: every proper prefix of an edit
\* object (a reply cut off), bare or fenced, and a few texts that are no
\* edit at all.
OtherReplies ==
  UNION {
    {[threw |-> FALSE, reply |-> f[1] \o SubSeq(o, 1, n) \o f[2], object |-> <<>>] :
       f \in CodeFences, n \in 1..(Len(o) - 1)} : o \in EditObjects}
  \cup {[threw |-> FALSE, reply |-> t, object |-> <<>>] :
          t \in {<<"Hello">>, <<"null">>, <<SPACE>>, <<LBRACE, "x", RBRACE>>,
                 <<RBRACE, "x", LBRACE>>,
                 Obj(<<Member("response", Str(<<"ok">>))>>),
                 <<"Sure", NL>> \o Obj(<<Member("response", Str(<<"ok">>))>>),
                 <<LBRACKET>> \o Obj(<<Member("response", Str(<<"ok">>)),
                                       Member("edit", <<"1">>)>>)}}

ModelThrows == [threw |-> TRUE, reply |-> <<>>, object |-> <<>>]

ModelCalls == EditReplies \cup OtherReplies \cup {ModelThrows}

NoModelCall == [threw |-> FALSE, reply |-> <<>>, object |-> <<>>]

HttpRequests ==
  [method : {"OPTIONS", "GET", "POST"},
   authorization : {"missing", "invalid", "valid"},
   message : BOOLEAN]

NoResponse == HttpResponse(0, Undefined)


\* ------------------------------------------------------------ more of JavaScript

ArrayValue(elements) == [t |-> "array", v |-> elements]

\* { ...value }: the own properties of an object; a number, boolean, null
\* or undefined spreads to nothing.  (A string would spread to its
\* characters; no input of the model spreads one.)
Spread(value) == IF value.t = "object" THEN value.v ELSE <<>>

\* { ...value, key: val }
With(value, key, val) == ObjectValue(SetMember(Spread(value), key, val))

\* The members JSON.stringify writes: a property holding undefined is left out.
RECURSIVE DropUndefined(_)
DropUndefined(members) ==
  IF members = <<>> THEN <<>>
  ELSE IF Head(members)[2].t = "undefined" THEN DropUndefined(Tail(members))
  ELSE <<Head(members)>> \o DropUndefined(Tail(members))

\* value === 'word'
Is(value, word) == value.t = "string" /\ value.v = <<word>>

\* response.ok of fetch.
IsOk(response) == response.status \in 200..299

\* Number of characters of an element of a string: the words of the
\* response processor count their letters, every other element is one
\* character.
WordLength(w) ==
  CASE w = "Current Value" -> 13
    [] w = "Revenue Efficiency" -> 18
    [] w = "tied up in inventory" -> 20
    [] w = "assets" -> 6
    [] w \in {"Total", "Count", "Value"} -> 5
    [] w = "Average" -> 7
    [] w \in {"Sum", "Max", "Min"} -> 3
    [] w = "SUMMARY" -> 7
    [] w = "SUM(INVENTORY!C1:C10)" -> 21
    [] w \in {"SUM(Sheet1!B1:B10)", "SUM(Sheet1!A1:A10)",
              "MAX(Sheet1!A1:A10)", "MIN(Sheet1!A1:A10)"} -> 18
    [] w = "AVERAGE(Sheet1!C1:C10)" -> 22
    [] OTHER -> 1

\* s.length
RECURSIVE Length(_)
Length(s) == IF s = <<>> THEN 0 ELSE WordLength(Head(s)) + Length(Tail(s))

\* The searched words an element of a string holds as a substring.
Substrings(w) ==
  CASE w = "Current Value" -> {"Current Value", "Value"}
    [] w = "Revenue Efficiency" -> {"Revenue Efficiency", "Revenue"}
    [] w = "tied up in inventory" -> {"tied up in inventory", "inventory"}
    [] OTHER -> {w}

\* s.includes(word), for a word the code searches for.
Includes(s, word) == \E k \in 1..Len(s) : word \in Substrings(s[k])

\* s.match(/^\d+$/)
AllDigits(s) ==
  s # <<>> /\ \A k \in 1..Len(s) : s[k] \in {"0", "1", "2", "3", "4", "5", "6", "7", "8", "9"}

\* ------------------------------------------------------------ response-validator.ts

\* The verdict for parsed, the result of JSON.parse: a reply that does
\* not parse is read as a verdict of valid.
Verdict(parsed) ==
  IF parsed.ok THEN parsed.val
  ELSE ObjectValue(<< <<<<"isValid">>, [t |-> "boolean", v |-> <<"true">>]>>,
                      <<<<"validationReason">>,
                        StringValue(<<"Could not parse validation response">>)>> >>)

\* Lines 120-143.  The reply of the referee model as a verdict.
parseValidationResponse(response) ==
  Verdict(JSONParse(ExtractFromCodeBlock(Trim(response))))

\* A validateAndFixResponse whose catch reports the response as not valid.
Validated_FailsClosed(threw, validationResult) ==
  IF threw \/ validationResult.t \in {"null", "undefined"}
    THEN [isValid |-> FALSE, correctedResponse |-> Undefined,
          validationReason |-> StringValue(<<"Validation failed">>)]
  ELSE IF ~Truthy(Get(validationResult, <<"isValid">>))
          /\ Truthy(Get(validationResult, <<"correctedResponse">>))
    THEN [isValid |-> FALSE,
          correctedResponse |-> Get(validationResult, <<"correctedResponse">>),
          validationReason |-> Get(validationResult, <<"validationReason">>)]
  ELSE [isValid |-> TRUE, correctedResponse |-> Undefined,
        validationReason |-> StringValue(<<"Response validated successfully">>)]

\* Lines 44-70, for the parsed verdict; threw tells whether the call of
\* the referee model threw.
Validated(threw, validationResult) ==
  IF threw \/ validationResult.t \in {"null", "undefined"}
    THEN [isValid |-> TRUE, correctedResponse |-> Undefined,
          validationReason |-> StringValue(<<"Validation failed, using original response">>)]
  ELSE IF ~Truthy(Get(validationResult, <<"isValid">>))
          /\ Truthy(Get(validationResult, <<"correctedResponse">>))
    THEN [isValid |-> FALSE,
          correctedResponse |-> Get(validationResult, <<"correctedResponse">>),
          validationReason |-> Get(validationResult, <<"validationReason">>)]
  ELSE [isValid |-> TRUE, correctedResponse |-> Undefined,
        validationReason |-> StringValue(<<"Response validated successfully">>)]

\* Lines 14-71.  referee = [threw, reply]: what the call of the referee
\* model does.  The result is { isValid, correctedResponse, validationReason }.
validateAndFixResponse(originalResponse, referee) ==
  Validated(referee.threw, parseValidationResponse(referee.reply))

\* ------------------------------------------------------------ response-processor.ts

\* What a pass returns: { wasCorrected, correctedResponse, reason }.
NotCorrected ==
  [wasCorrected |-> FALSE, correctedResponse |-> Undefined, reason |-> <<>>]

Corrected(correctedResponse, reason) ==
  [wasCorrected |-> TRUE, correctedResponse |-> correctedResponse, reason |-> <<reason>>]

\* Lines 264-280.
generateFormulaFromText(text) ==
  IF Includes(text, "Current Value") \/ Includes(text, "inventory")
    THEN <<"=", "SUM(INVENTORY!C1:C10)">>
  ELSE IF Includes(text, "Revenue") \/ Includes(text, "efficiency")
    THEN <<"=", "SUM(Sheet1!B1:B10)">>
  ELSE IF Includes(text, "Average") \/ Includes(text, "avg")
    THEN <<"=", "AVERAGE(Sheet1!C1:C10)">>
  ELSE IF Includes(text, "Count") \/ Includes(text, "Total") \/ Includes(text, "Sum")
    THEN <<"=", "SUM(Sheet1!A1:A10)">>
  ELSE IF Includes(text, "Max") THEN <<"=", "MAX(Sheet1!A1:A10)">>
  ELSE IF Includes(text, "Min") THEN <<"=", "MIN(Sheet1!A1:A10)">>
  ELSE <<"=", "SUM(Sheet1!A1:A10)">>

\* Lines 110-121: the test of one cell in hasProblematicText.
ProblematicCell(cell) ==
  /\ cell.t = "string"
  /\ \/ \E w \in {"Current Value", "Revenue Efficiency", "tied up in inventory",
                  "assets", "Total", "Average", "Count", "Sum"} : Includes(cell.v, w)
     \/ Includes(cell.v, "Value") /\ Length(cell.v) > 20
     \/ Length(cell.v) > 15 /\ ~Includes(cell.v, "=") /\ ~AllDigits(cell.v)

\* A test for the cell to convert that asks for more than twenty characters.
ConvertibleCell_Over20(cell) ==
  cell.t = "string" /\ Length(cell.v) > 20 /\ ~Includes(cell.v, "=")

\* Line 136: the test of one cell in the loop that converts.
ConvertibleCell(cell) ==
  cell.t = "string" /\ Length(cell.v) > 10 /\ ~Includes(cell.v, "=")

\* String.fromCharCode(65 + colIndex) for the column with number col = colIndex + 1.
ColumnLetter(col) == <<"A", "B", "C", "D", "E", "F">>[col]

\* The decimal digits of rowIndex + 1, for the row with number row = rowIndex + 1.
RowNumber(row) == <<"1", "2", "3", "4", "5", "6", "7", "8", "9">>[row]

\* Line 139: response.edit.range?.split('!')[0] || 'SUMMARY'; threw when
\* range is neither absent nor a string.
SheetName(range) ==
  IF range.t \in {"undefined", "null"} THEN [threw |-> FALSE, name |-> <<"SUMMARY">>]
  ELSE IF range.t # "string" THEN [threw |-> TRUE, name |-> <<>>]
  ELSE LET bang == IndexOf(range.v, "!")
           first == IF bang = 0 THEN range.v ELSE Slice(range.v, 1, bang - 1)
       IN [threw |-> FALSE, name |-> IF first = <<>> THEN <<"SUMMARY">> ELSE first]

\* Lines 102-173.
detectAndFixPatterns(response) ==
  LET edit == Get(response, <<"edit">>)
      values == Get(edit, <<"values">>)
      rows == values.v
      \* the rows forEach reaches that are no arrays make it throw
      isRow(r) == rows[r].t = "array"
      hits == UNION {{<<r, c>> : c \in {k \in 1..Len(rows[r].v) :
                                          ConvertibleCell(rows[r].v[k])}} :
                       r \in {k \in 1..Len(rows) : isRow(k)}}
      first == CHOOSE h \in hits :
                 \A g \in hits : h[1] < g[1] \/ (h[1] = g[1] /\ h[2] <= g[2])
      reached == IF hits = {} THEN Len(rows) ELSE first[1]
      sheet == SheetName(Get(edit, <<"range">>))
      cellRef == <<ColumnLetter(first[2]), RowNumber(first[1])>>
  IN IF ~(/\ Truthy(edit)
          /\ Is(Get(edit, <<"type">>), "update_range")
          /\ Truthy(values))
       THEN NotCorrected
     ELSE IF values.t # "array" THEN NotCorrected
     ELSE IF ~\E r \in 1..Len(rows) :
                isRow(r) /\ \E c \in 1..Len(rows[r].v) : ProblematicCell(rows[r].v[c])
       THEN NotCorrected
     ELSE IF \E r \in 1..reached : ~isRow(r) THEN NotCorrected
     ELSE IF hits = {} \/ sheet.threw THEN NotCorrected
     ELSE Corrected(
            ObjectValue(<<
              <<<<"response">>,
                StringValue(<<"Adding calculation formula to ">> \o sheet.name
                              \o <<"!">> \o cellRef)>>,
              <<<<"edit">>,
                ObjectValue(<<
                  <<<<"type">>, StringValue(<<"update_formula">>)>>,
                  <<<<"cell">>, StringValue(sheet.name \o <<"!">> \o cellRef)>>,
                  <<<<"formula">>, StringValue(generateFormulaFromText(
                                     rows[first[1]].v[first[2]].v))>>,
                  <<<<"confidence">>, StringValue(<<"high">>)>>,
                  <<<<"reasoning">>,
                    StringValue(<<"Pattern detection converted descriptive text to proper formula">>)>>
                >>)>> >>),
            "Converted descriptive text to formula using pattern detection")

\* Lines 176-218.
validateFormulas(response) ==
  LET edit == Get(response, <<"edit">>)
      formula == Get(edit, <<"formula">>)
      withFormula(f) == With(response, <<"edit">>, With(edit, <<"formula">>, StringValue(f)))
  IN IF ~(/\ Truthy(edit)
          /\ Is(Get(edit, <<"type">>), "update_formula")
          /\ Truthy(formula))
       THEN NotCorrected
     ELSE IF formula.t # "string" THEN NotCorrected
     ELSE IF formula.v[1] # "="
       THEN Corrected(withFormula(<<"=">> \o formula.v), "Fixed formula to start with =")
     ELSE IF Includes(formula.v, "Current Value") \/ Includes(formula.v, "Revenue Efficiency")
       THEN Corrected(withFormula(generateFormulaFromText(formula.v)),
                      "Fixed formula to use proper Excel functions")
     ELSE NotCorrected

\* Lines 221-261.
finalQualityCheck(response) ==
  LET edit == Get(response, <<"edit">>)
  IN IF ~Truthy(edit) THEN NotCorrected
     ELSE IF ~Truthy(Get(edit, <<"confidence">>))
       THEN Corrected(With(response, <<"edit">>,
                           With(edit, <<"confidence">>, StringValue(<<"high">>))),
                      "Added missing confidence level")
     ELSE IF ~Truthy(Get(edit, <<"reasoning">>))
       THEN Corrected(With(response, <<"edit">>,
                           With(edit, <<"reasoning">>,
                                StringValue(<<"AI-generated response processed through quality pipeline">>))),
                      "Added missing reasoning")
     ELSE NotCorrected

\* ------------------------------------------------------------ api/chat/route.ts

\* Lines 32-45: what the route makes of the response of chatHttp.
Forwarded(response) ==
  IF ~IsOk(response) THEN HttpResponse(500, ErrorBody("Internal server error"))
  ELSE HttpResponse(200, response.body)

\* Lines 3-46.  body = [message, idToken] tells which of the two the request
\* body holds; verified tells whether chatHttp accepts the token; model is
\* what callAIModel does when chatHttp calls it.
POST(body, verified, model) ==
  IF ~body.message THEN HttpResponse(400, ErrorBody("Message is required"))
  ELSE IF ~body.idToken THEN HttpResponse(401, ErrorBody("Authentication required"))
  ELSE Forwarded(chatHttp([method |-> "POST",
                           authorization |-> IF verified THEN "valid" ELSE "invalid",
                           message |-> TRUE], model))

\* ------------------------------------------------------------ googleDriveOperations

\* What the handler did: its response and the calls it made that changed a
\* document or a spreadsheet.
DriveAnswer(res, calls) == [res |-> res, calls |-> calls]

\* Lines 1620-1647: the answers of the catch block; of their bodies the
\* error field, the one the clients read.
DriveFailure(google) ==
  IF google = "no_tokens"
    THEN DriveAnswer(HttpResponse(401, ErrorBody("OAuth tokens not found")), <<>>)
    ELSE DriveAnswer(HttpResponse(500, ErrorBody("Failed to perform Google Drive operation")),
                     <<>>)

\* `${value}` for a string or an absent value.
Text(value) == IF value.t = "string" THEN value.v ELSE <<value.t>>

\* Line 1618: res.json({ result }).
DriveResult(result, calls) ==
  DriveAnswer(HttpResponse(200, ObjectValue(<< <<<<"result">>, result>> >>)), calls)

\* One request of the requests of a batchUpdate.  index of insertText is
\* held by startIndex; a field a kind of request does not have holds 0 or <<>>.
BatchRequest(kind, dimension, startIndex, endIndex, text) ==
  [kind |-> kind, dimension |-> dimension, startIndex |-> startIndex,
   endIndex |-> endIndex, text |-> text]

\* The number a sequence of decimal digits writes.
RECURSIVE ToNumber(_)
ToNumber(digits) ==
  IF digits = <<>> THEN 0
  ELSE 10 * ToNumber(SubSeq(digits, 1, Len(digits) - 1))
         + (CHOOSE n \in 0..9 :
              <<"0", "1", "2", "3", "4", "5", "6", "7", "8", "9">>[n + 1] = digits[Len(digits)])

\* Lines 1268-1273: the reduce over the content blocks, an element of
\* content being the endIndex of a block and 0 for a block without one.
RECURSIVE MaxEndIndex(_, _)
MaxEndIndex(content, max) ==
  IF content = <<>> THEN max
  ELSE MaxEndIndex(Tail(content),
                   IF Head(content) # 0 /\ Head(content) > max THEN Head(content) ELSE max)

\* Lines 1268-1273: endIndex of rewrite_document for doc = [body, content],
\* what docs.documents.get returns: body tells whether it has a body with
\* content.
EndIndex(doc) == IF doc.body THEN MaxEndIndex(doc.content, 1) ELSE 1

\* Requests that delete whenever endIndex is over 1.
RewriteRequests_Over1(endIndex, newContent) ==
  (IF endIndex > 1
     THEN <<BatchRequest("deleteContentRange", "", 1, endIndex - 1, <<>>)>>
     ELSE <<>>)
  \o <<BatchRequest("insertText", "", 1, 0, newContent)>>

\* Lines 1275-1300: the requests of rewrite_document.
RewriteRequests(endIndex, newContent) ==
  (IF endIndex > 2
     THEN <<BatchRequest("deleteContentRange", "", 1, endIndex - 1, <<>>)>>
     ELSE <<>>)
  \o <<BatchRequest("insertText", "", 1, 0, newContent)>>

\* The replaceText values of the replaceAllText requests applied to a
\* document, oldest first.  The paragraphs Google Docs returns for a
\* document are a function of the requests applied to it; the model stands
\* for them by this sequence.
RECURSIVE Applied(_, _)
Applied(calls, documentId) ==
  IF calls = <<>> THEN <<>>
  ELSE (IF /\ Head(calls).api = "docs.documents.batchUpdate"
           /\ Head(calls).id = documentId
           /\ Head(calls).requests[1].kind = "replaceAllText"
          THEN <<Head(calls).replaceText>> ELSE <<>>)
       \o Applied(Tail(calls), documentId)

\* The document after calls: the text an insertText request inserts at
\* index 1 lies before the final newline, which ends at its length plus 2.
Rewritten(doc, calls) ==
  IF calls # <<>> /\ calls[1].requests # <<>>
       /\ calls[1].requests[Len(calls[1].requests)].kind = "insertText"
    THEN [body |-> TRUE,
          content |-> <<1, Length(calls[1].requests[Len(calls[1].requests)].text.v) + 2>>]
    ELSE doc

\* A call that changes a document or a spreadsheet.
MutationCall(api, id, requests, range, values) ==
  [api |-> api, id |-> id, replaceText |-> Undefined, text |-> Undefined,
   range |-> range, values |-> values, requests |-> requests]

\* Lines 1261-1313.  The call of docs.documents.get is the first call to
\* Google, the batchUpdate the second.
rewrite_document(params, google, doc) ==
  IF google = "throws_second" THEN DriveFailure(google)
  ELSE DriveResult(
         ObjectValue(<< <<<<"documentId">>, Get(params, <<"documentId">>)>>,
                        <<<<"message">>, StringValue(<<"Document rewritten successfully">>)>> >>),
         <<MutationCall("docs.documents.batchUpdate", Get(params, <<"documentId">>),
                        RewriteRequests(EndIndex(doc), Get(params, <<"newContent">>)),
                        Undefined, Undefined)>>)

\* Lines 1478-1488 and 1519-1530: the update of the new row or column, made
\* when values are provided; first is the insertion already applied.
SeedValues(params, google, first, range, values, message) ==
  IF ~(Truthy(Get(params, <<"values">>)) /\ Len(Get(params, <<"values">>).v) > 0)
    THEN DriveResult(message, <<first>>)
  ELSE IF google = "throws_second"
    THEN DriveAnswer(DriveFailure(google).res, <<first>>)
  ELSE DriveResult(message,
         <<first, MutationCall("sheets.spreadsheets.values.update",
                               Get(params, <<"documentId">>), <<>>, range, values)>>)

\* The insertion of lines 1461-1475 and 1502-1516; position is a number in
\* every request of the model.
InsertDimension(params, dimension) ==
  MutationCall("sheets.spreadsheets.batchUpdate", Get(params, <<"documentId">>),
               <<BatchRequest("insertDimension", dimension,
                              ToNumber(Get(params, <<"position">>).v) - 1,
                              ToNumber(Get(params, <<"position">>).v), <<>>)>>,
               Undefined, Undefined)

\* The result { documentId, message } of an insertion.
Inserted(params, what) ==
  ObjectValue(<< <<<<"documentId">>, Get(params, <<"documentId">>)>>,
                 <<<<"message">>,
                   StringValue(<<what, " inserted at position ">>
                                 \o Get(params, <<"position">>).v
                                 \o <<" successfully">>)>> >>)

\* The range written for n values in the row position.
RowRange(position, n) ==
  StringValue(<<"A">> \o position.v \o <<":", ColumnLetter(n)>> \o position.v)

\* Lines 1456-1495.
insert_row(params, google) ==
  SeedValues(params, google, InsertDimension(params, "ROWS"),
             RowRange(Get(params, <<"position">>), Len(Get(params, <<"values">>).v)),
             ArrayValue(<<Get(params, <<"values">>)>>),
             Inserted(params, "Row"))

\* The range written for n values in the column position.
ColumnRange(position, n) ==
  StringValue(<<ColumnLetter(ToNumber(position.v)), "1", ":",
                ColumnLetter(ToNumber(position.v)), RowNumber(n)>>)

\* values.map(value => [value])
OnePerRow(values) == ArrayValue([k \in 1..Len(values.v) |-> ArrayValue(<<values.v[k]>>)])

\* Lines 1497-1537.
insert_column(params, google) ==
  SeedValues(params, google, InsertDimension(params, "COLUMNS"),
             ColumnRange(Get(params, <<"position">>), Len(Get(params, <<"values">>).v)),
             OnePerRow(Get(params, <<"values">>)),
             Inserted(params, "Column"))

\* Lines 1082-1649, for the operations get_document (1150-1173),
\* replace_text (1175-1197), rewrite_document (1261-1313), update_range
\* (1436-1454), insert_row (1456-1495) and insert_column (1497-1537) and for
\* an operation the switch does not know (1613-1615).  req = [method,
\* authorization, operation, params]; google is what the calls to Google
\* do: "ok", "no_tokens" (getOAuthClient finds no tokens), "throws" (the
\* first API call fails) or "throws_second" (the first API call succeeds
\* and the second, if the operation makes one, fails); doc is what
\* docs.documents.get returns to rewrite_document; calls are the calls
\* applied so far.  The title of a document is left out of the result of
\* get_document.
googleDriveOperations(req, google, doc, calls) ==
  LET params == req.params
      documentId == Get(params, <<"documentId">>)
      findText == Get(params, <<"findText">>)
  IN IF req.method = "OPTIONS" THEN DriveAnswer(HttpResponse(204, Undefined), <<>>)
     ELSE IF req.method # "POST"
       THEN DriveAnswer(HttpResponse(405, ErrorBody("Method not allowed")), <<>>)
     ELSE IF req.authorization = "missing"
       THEN DriveAnswer(HttpResponse(401, ErrorBody("Authorization header required")), <<>>)
     ELSE IF req.authorization = "invalid" THEN DriveFailure("throws")
     ELSE IF google = "no_tokens" THEN DriveFailure(google)
     ELSE IF req.operation \notin {"get_document", "replace_text", "rewrite_document",
                                   "update_range", "insert_row", "insert_column"}
       THEN DriveAnswer(HttpResponse(400, ErrorBody("Unknown operation")), <<>>)
     ELSE IF google = "throws" THEN DriveFailure(google)
     ELSE CASE req.operation = "rewrite_document" -> rewrite_document(params, google, doc)
            [] req.operation = "insert_row" -> insert_row(params, google)
            [] req.operation = "insert_column" -> insert_column(params, google)
            [] req.operation = "get_document" ->
                 DriveResult(
                   ObjectValue(<< <<<<"documentId">>, documentId>>,
                                  <<<<"content">>, ArrayValue(Applied(calls, documentId))>> >>),
                   <<>>)
            [] req.operation = "replace_text" ->
                 DriveResult(
                   ObjectValue(<< <<<<"documentId">>, documentId>>,
                                  <<<<"message">>, StringValue(<<"Text replaced successfully">>)>> >>),
                   <<[api |-> "docs.documents.batchUpdate",
                      id |-> documentId,
                      replaceText |-> Get(params, <<"replaceWithText">>),
                      text |-> IF Truthy(findText) THEN findText ELSE StringValue(<<>>),
                      range |-> Undefined,
                      values |-> Undefined,
                      requests |-> <<BatchRequest("replaceAllText", "", 0, 0, <<>>)>>]>>)
            [] req.operation = "update_range" ->
                 DriveResult(
                   ObjectValue(<< <<<<"documentId">>, documentId>>,
                                  <<<<"message">>,
                                    StringValue(<<"Range ">> \o Text(Get(params, <<"range">>))
                                                  \o <<" updated successfully">>)>> >>),
                   <<[api |-> "sheets.spreadsheets.values.update",
                      id |-> documentId,
                      replaceText |-> Undefined,
                      text |-> Undefined,
                      range |-> Get(params, <<"range">>),
                      values |-> Get(params, <<"values">>),
                      requests |-> <<>>]>>)

\* ------------------------------------------------------------ outbound calls of the endpoints

\* What an endpoint did: its response and the calls it made to services
\* outside the functions module, oldest first.
EndpointAnswer(res, outbound) == [res |-> res, outbound |-> outbound]

\* Lines 329-978: chatHttp with the call it makes to the model.
chatHttpEndpoint(req, model) ==
  EndpointAnswer(chatHttp(req, model),
                 IF CallsModel(req) THEN <<"callAIModel">> ELSE <<>>)

\* Lines 981-1022: railwayProxyHttp; railway tells what axios.post to the
\* Railway API does, "ok" or "throws".
railwayProxyHttp(req, railway) ==
  IF req.method = "OPTIONS" THEN EndpointAnswer(HttpResponse(204, Undefined), <<>>)
  ELSE IF req.method # "POST"
    THEN EndpointAnswer(HttpResponse(405, ErrorBody("Method not allowed")), <<>>)
  ELSE IF railway = "throws"
    THEN EndpointAnswer(HttpResponse(500, ErrorBody("Failed to communicate with Railway API")),
                        <<"axios.post">>)
  ELSE EndpointAnswer(HttpResponse(200, ObjectValue(<<>>)), <<"axios.post">>)

\* Lines 1078-1649: googleDriveOperations with the call it makes to a
\* Google API, for a document doc; getOAuthClient reads the tokens from
\* Firestore and calls no service outside.
googleDriveEndpoint(req, google, doc) ==
  EndpointAnswer(googleDriveOperations(req, google, doc, <<>>).res,
                 IF /\ req.method = "POST"
                    /\ req.authorization = "valid"
                    /\ google # "no_tokens"
                    /\ req.operation \in {"get_document", "replace_text", "rewrite_document",
                                          "update_range", "insert_row", "insert_column"}
                   THEN <<"googleapis">> ELSE <<>>)

\* Lines 1713-1776: exchangeOAuthCode; req.code tells whether the body holds
\* a code, google what oauth2Client.getToken does, "ok" or "throws".
exchangeOAuthCode(req, google) ==
  IF req.method = "OPTIONS" THEN EndpointAnswer(HttpResponse(204, Undefined), <<>>)
  ELSE IF req.method # "POST"
    THEN EndpointAnswer(HttpResponse(405, ErrorBody("Method not allowed")), <<>>)
  ELSE IF req.authorization = "missing"
    THEN EndpointAnswer(HttpResponse(401, ErrorBody("Authorization header required")), <<>>)
  ELSE IF req.authorization = "invalid"
    THEN EndpointAnswer(HttpResponse(500, ErrorBody("Failed to exchange OAuth code")), <<>>)
  ELSE IF ~req.code
    THEN EndpointAnswer(HttpResponse(400, ErrorBody("Authorization code is required")), <<>>)
  ELSE IF google = "throws"
    THEN EndpointAnswer(HttpResponse(500, ErrorBody("Failed to exchange OAuth code")),
                        <<"oauth2Client.getToken">>)
  ELSE EndpointAnswer(HttpResponse(200, ObjectValue(<< <<<<"success">>,
                                                        [t |-> "boolean", v |-> <<"true">>]>> >>)),
                      <<"oauth2Client.getToken">>)

\* ------------------------------------------------------------ ChatPanel.tsx, page.tsx

\* A chat message (types/index.ts, Message) without its timestamp.  The id
\* is the number whose decimal digits the code stores; editProposal is
\* Undefined on a message without one.
Message(id, role, content, editProposal) ==
  [id |-> id, role |-> role, content |-> content, editProposal |-> editProposal]

\* ChatPanel.tsx lines 112-121: the proposal stored on the assistant message.
EditProposalOf(edit) ==
  ObjectValue(<<
    <<<<"type">>, Get(edit, <<"type">>)>>,
    <<<<"findText">>, Get(edit, <<"findText">>)>>,
    <<<<"replaceText">>, Get(edit, <<"replaceText">>)>>,
    <<<<"newContent">>, Get(edit, <<"newContent">>)>>,
    <<<<"position">>, Get(edit, <<"position">>)>>,
    <<<<"confidence">>, Get(edit, <<"confidence">>)>>,
    <<<<"reasoning">>, Get(edit, <<"reasoning">>)>>,
    <<<<"status">>, StringValue(<<"pending">>)>> >>)

\* ChatPanel.tsx lines 124-129: what onEditProposal is called with.
PendingEditOf(messageId, edit) ==
  [messageId |-> messageId,
   type |-> Get(edit, <<"type">>),
   findText |-> Get(edit, <<"findText">>),
   replaceText |-> Get(edit, <<"replaceText">>)]

\* ChatPanel.tsx lines 101-132 and 152-158: the messages sendMessage hands
\* to onChatUpdate once the request has settled.  res is the response of
\* /api/chat, <<>> when the request threw; now is the reading of Date.now().
AssistantMessage(res, now) ==
  IF res = <<>> \/ ~IsOk(res[1])
    THEN Message(now + 1, "assistant",
                 StringValue(<<"Sorry, I encountered an error. Please try again.">>),
                 Undefined)
    ELSE LET data == res[1].body
             edit == Get(data, <<"edit">>)
         IN Message(now + 1, "assistant", Get(data, <<"response">>),
                    IF Truthy(edit) THEN EditProposalOf(edit) ELSE Undefined)

\* chatHistory.find(m => m.id === messageId): its place, 0 when there is none.
Find(history, messageId) ==
  LET found == {k \in 1..Len(history) : history[k].id = messageId}
  IN IF found = {} THEN 0 ELSE CHOOSE k \in found : \A m \in found : k <= m

\* page.tsx lines 210-214 and 232-236: the history with the status of the
\* proposal of every message of that id set.
WithStatus(history, messageId, status) ==
  [k \in 1..Len(history) |->
     IF history[k].id = messageId
       THEN [history[k] EXCEPT
               !.editProposal = With(@, <<"status">>, StringValue(<<status>>))]
       ELSE history[k]]

\* ChatPanel.tsx line 254: the Accept and Reject buttons of a message show.
ShowsButtons(message) ==
  /\ Truthy(message.editProposal)
  /\ Is(Get(message.editProposal, <<"status">>), "pending")

\* page.tsx lines 189-203: the request handleAcceptEdit sends.
AcceptRequest(file, editProposal) ==
  [method |-> "POST",
   authorization |-> "bearer",
   operation |-> "replace_text",
   params |-> ObjectValue(DropUndefined(<<
                <<<<"documentId">>, StringValue(<<file.id>>)>>,
                <<<<"findText">>, Get(editProposal, <<"findText">>)>>,
                <<<<"replaceWithText">>, Get(editProposal, <<"replaceText">>)>> >>))]

\* page.tsx lines 123-135: the request loadDocumentContent sends.
LoadRequest(file) ==
  [method |-> "POST",
   authorization |-> "bearer",
   operation |-> "get_document",
   params |-> ObjectValue(<< <<<<"documentId">>, StringValue(<<file.id>>)>> >>)]

\* page.tsx lines 93-98, 110-115, 147-152, 156-161: the content shown for a
\* file that could not be loaded.
ErrorContent(file, error) ==
  ObjectValue(<< <<<<"documentId">>, StringValue(<<file.id>>)>>,
                 <<<<"title">>, StringValue(<<file.name>>)>>,
                 <<<<"content">>, ArrayValue(<<>>)>>,
                 <<<<"error">>, error>> >>)

\* ------------------------------------------------------------ findTextWithFuzzyMatching

\* text.includes(needle)
IncludesText(text, needle) ==
  \E i \in 0..(Len(text) - Len(needle)) : SubSeq(text, i + 1, i + Len(needle)) = needle

\* An indexOf that returns the offset of the last occurrence.
IndexOfText_Last(text, needle) ==
  IF ~IncludesText(text, needle) THEN -1
  ELSE CHOOSE i \in 0..(Len(text) - Len(needle)) :
         /\ SubSeq(text, i + 1, i + Len(needle)) = needle
         /\ \A k \in (i + 1)..(Len(text) - Len(needle)) :
              SubSeq(text, k + 1, k + Len(needle)) # needle

\* text.indexOf(needle): the 0-based offset of the first occurrence, -1 if
\* there is none.
IndexOfText(text, needle) ==
  IF ~IncludesText(text, needle) THEN -1
  ELSE CHOOSE i \in 0..(Len(text) - Len(needle)) :
         /\ SubSeq(text, i + 1, i + Len(needle)) = needle
         /\ \A k \in 0..(i - 1) : SubSeq(text, k + 1, k + Len(needle)) # needle

\* text.replace(/\s+/g, ' '): every run of whitespace becomes one space.
RECURSIVE CollapseWs(_)
CollapseWs(text) ==
  IF text = <<>> THEN <<>>
  ELSE IF Head(text) \in WhiteSpace
    THEN <<SPACE>> \o CollapseWs(SubSeq(text, LeadingWs(text, 1) + 1, Len(text)))
  ELSE <<Head(text)>> \o CollapseWs(Tail(text))

\* text.replace(/\s+/g, ' ').trim()
NormalizeWs(text) == Trim(CollapseWs(text))

\* text.split(' '): the pieces between the spaces, oldest first.
RECURSIVE Split(_, _)
Split(text, piece) ==
  IF text = <<>> THEN <<piece>>
  ELSE IF Head(text) = SPACE THEN <<piece>> \o Split(Tail(text), <<>>)
  ELSE Split(Tail(text), Append(piece, Head(text)))

\* words.join(' ')
RECURSIVE Join(_)
Join(words) ==
  IF words = <<>> THEN <<>>
  ELSE IF Len(words) = 1 THEN words[1]
  ELSE words[1] \o <<SPACE>> \o Join(Tail(words))

\* null, the result for no match.
NoMatch == [paragraphIndex |-> -1, index |-> -1, length |-> 0, confidence |-> "none"]

\* What one forEach of page.tsx lines 248-257, 263-274 and 283-292 pushes,
\* from the paragraph pIndex + 1 on: content holds the text of each item;
\* normalize tells whether the test is made on the normalized text.
RECURSIVE Pushed(_, _, _, _, _)
Pushed(content, pIndex, needle, normalize, confidence) ==
  IF pIndex >= Len(content) THEN <<>>
  ELSE (IF IncludesText(IF normalize THEN NormalizeWs(content[pIndex + 1])
                        ELSE content[pIndex + 1], needle)
          THEN <<[paragraphIndex |-> pIndex,
                  index |-> IndexOfText(content[pIndex + 1], needle),
                  length |-> Len(needle),
                  confidence |-> confidence]>>
          ELSE <<>>)
       \o Pushed(content, pIndex + 1, needle, normalize, confidence)

\* Lines 279-292: what the core text pushes.
CoreMatches(content, words) ==
  IF Len(words) > 2
    THEN Pushed(content, 0, Join(SubSeq(words, 2, Len(words) - 1)), FALSE, "medium")
    ELSE <<>>

\* A choice of the match pushed last.
BestMatch_Last(matches) == IF Len(matches) > 0 THEN matches[Len(matches)] ELSE NoMatch

\* Line 295.
BestMatch(matches) == IF Len(matches) > 0 THEN matches[1] ELSE NoMatch

\* Lines 276-295, for the matches of the first two passes.
AfterNormalized(content, normalizedFind, matches) ==
  IF Len(matches) = 1 THEN matches[1]
  ELSE BestMatch(matches \o CoreMatches(content, Split(normalizedFind, <<>>)))

\* A second pass that tests the text of the paragraph as it is.
WithNormalized_RawText(content, normalizedFind, matches) ==
  AfterNormalized(content, normalizedFind,
                  matches \o Pushed(content, 0, normalizedFind, FALSE, "medium"))

\* Lines 262-295, for the normalized findText.
WithNormalized(content, normalizedFind, matches) ==
  AfterNormalized(content, normalizedFind,
                  matches \o Pushed(content, 0, normalizedFind, TRUE, "medium"))

\* A locator whose later passes report the length of findText as given.
AfterExact_LengthOfFindText(content, findText, matches) ==
  IF Len(matches) = 1 THEN matches[1]
  ELSE [WithNormalized(content, NormalizeWs(findText), matches)
          EXCEPT !.length = IF @ = 0 THEN 0 ELSE Len(findText)]

\* Lines 259-295, for the matches of the exact pass.
AfterExact(content, findText, matches) ==
  IF Len(matches) = 1 THEN matches[1]
  ELSE WithNormalized(content, NormalizeWs(findText), matches)

\* Lines 244-296.
findTextWithFuzzyMatching(content, findText) ==
  AfterExact(content, findText, Pushed(content, 0, findText, FALSE, "high"))

\* ------------------------------------------------------------ chat inputs

\* Most actions of the user in one session: messages sent, files selected
\* and clicks on Accept that reach the request.
MaxActions == 3

\* Latest reading of Date.now(), counted from the start of the session.
MaxClock == 1

\* "range":"A1:C2"
RangeA1C2 == Str(<<"A", "1", COLON, "C", "2">>)

\* [["1","1",...]] with n values in its one row.
RECURSIVE RowText(_)
RowText(n) ==
  IF n = 1 THEN Str(<<"1">>) ELSE Str(<<"1">>) \o <<COMMA>> \o RowText(n - 1)

ValuesText(n) == <<LBRACKET, LBRACKET>> \o RowText(n) \o <<RBRACKET, RBRACKET>>

\* The edit objects the model answers a chat message with: a replacement,
\* a rewrite that holds search text, an edit of a kind the application does
\* not know, and an update of the three-column range A1:C2 with a row of
\* four values.
ChatEditTexts ==
  {Obj(<<Member("type", Str(<<"replace">>)), Member("findText", Str(<<"a">>)),
         Member("replaceText", Str(<<"b">>))>>),
   Obj(<<Member("type", Str(<<"rewrite">>)), Member("findText", Str(<<"a">>)),
         Member("newContent", Str(<<"c">>))>>),
   Obj(<<Member("type", Str(<<"frobnicate">>)), Member("findText", Str(<<"a">>)),
         Member("replaceText", Str(<<"b">>))>>),
   Obj(<<Member("type", Str(<<"update_range">>)), Member("range", RangeA1C2),
         Member("values", ValuesText(4))>>)}

\* What callAIModel does for a chat message.
ChatModelCalls ==
  {[threw |-> FALSE,
    reply |-> Obj(<<Member("response", Str(<<"ok">>)), Member("edit", e)>>),
    object |-> <<>>] : e \in ChatEditTexts}
    \cup {[threw |-> FALSE, reply |-> <<"Hello">>, object |-> <<>>], ModelThrows}

\* The responses of /api/chat to the request of sendMessage, which holds
\* a message and an id token: for a token chatHttp accepts, one per thing
\* the model does; for one it rejects, the one of the route.
ChatRouteResponses ==
  {POST([message |-> TRUE, idToken |-> TRUE], c.verified, c.model) :
     c \in {[verified |-> TRUE, model |-> m] : m \in ChatModelCalls}
              \cup {[verified |-> FALSE, model |-> NoModelCall]}}

\* The files of the file list (types/index.ts, File).
Files ==
  {[id |-> "doc1", name |-> "Doc", isGoogleDoc |-> TRUE],
   [id |-> "sheet1", name |-> "Sheet", isGoogleDoc |-> FALSE]}

NoFile == [id |-> "", name |-> "", isGoogleDoc |-> FALSE]

\* params of an update_range request with a row of n values for the range A1:C2.
UpdateRangeParams(n) ==
  ObjectValue(<< <<<<"documentId">>, StringValue(<<"sheet1">>)>>,
                 <<<<"range">>, JSONParse(RangeA1C2).val>>,
                 <<<<"values">>, JSONParse(ValuesText(n)).val>> >>)

\* Requests a client posts to googleDriveOperations.
ClientRequests ==
  [method : {"OPTIONS", "GET", "POST"},
   authorization : {"missing", "bearer"},
   operation : {"get_document", "replace_text", "update_range", "frobnicate"},
   params : {UpdateRangeParams(3), UpdateRangeParams(4)}]

\* What docs.documents.get returns for a document that is empty: a section
\* break that ends at 1 and a paragraph, the final newline, that ends at 2.
EmptyDocument == [body |-> TRUE, content |-> <<1, 2>>]

\* What docs.documents.get returns: no body, no content blocks, the empty
\* document, documents with text, blocks out of order, a block without
\* endIndex (0).
DocsDocuments ==
  {[body |-> FALSE, content |-> <<>>],
   [body |-> TRUE, content |-> <<>>],
   EmptyDocument,
   [body |-> TRUE, content |-> <<1, 3>>],
   [body |-> TRUE, content |-> <<1, 4, 9>>],
   [body |-> TRUE, content |-> <<7, 0, 5>>]}

\* params of rewrite_document with newContent "X".
RewriteParams ==
  ObjectValue(<< <<<<"documentId">>, StringValue(<<"doc1">>)>>,
                 <<<<"newContent">>, StringValue(<<"X">>)>> >>)

\* params of insert_row and insert_column at position 2, with n seed values.
InsertParams(n) ==
  ObjectValue(<< <<<<"documentId">>, StringValue(<<"sheet1">>)>>,
                 <<<<"position">>, [t |-> "number", v |-> <<"2">>]>> >>
              \o IF n = 0 THEN <<>>
                 ELSE << <<<<"values">>, ArrayValue([k \in 1..n |-> StringValue(<<"v">>)])>> >>)

\* Requests of a client for the operations that rewrite and insert.
EditRequests ==
  [method : {"POST"}, authorization : {"bearer"},
   operation : {"rewrite_document"}, params : {RewriteParams}]
  \cup [method : {"POST"}, authorization : {"bearer"},
        operation : {"insert_row", "insert_column"},
        params : {InsertParams(0), InsertParams(2)}]

\* A replacement in the document doc1, handled before the session starts.
EarlierRequest ==
  [method |-> "POST", authorization |-> "valid", operation |-> "replace_text",
   params |-> ObjectValue(<< <<<<"documentId">>, StringValue(<<"doc1">>)>>,
                             <<<<"findText">>, StringValue(<<"a">>)>>,
                             <<<<"replaceWithText">>, StringValue(<<"b">>)>> >>)]

\* A request to googleDriveOperations in flight: its number, who sent it
\* ("accept", "load" or "client"), the request, the response (<<>> until
\* the handler has answered) and what the sender's continuation holds: the
\* file, and for handleAcceptEdit the message id and the chatHistory of the
\* render in which Accept was clicked.
Exchange(n, kind, req, file, messageId, history) ==
  [n |-> n, kind |-> kind, req |-> req, res |-> <<>>,
   file |-> file, messageId |-> messageId, chatHistory |-> history]

\* ------------------------------------------------------------ pipeline inputs

\* A cell of sixteen characters that holds no keyword.
LongCell == StringValue([k \in 1..16 |-> "x"])

\* A cell of forty-one characters: "Current Value tied up in inventory assets".
DescriptiveText ==
  StringValue(<<"Current Value", " ", "tied up in inventory", " ", "assets">>)

\* A cell of sixteen characters that holds the keyword Total.
TotalCell == StringValue(<<"Total">> \o [k \in 1..11 |-> "x"])

\* Fields of an edit besides confidence and reasoning.
EditBases ==
  {<< <<<<"type">>, StringValue(<<"replace">>)>>,
      <<<<"findText">>, StringValue(<<"a">>)>>,
      <<<<"replaceText">>, StringValue(<<"b">>)>> >>,
   << <<<<"type">>, StringValue(<<"update_formula">>)>>,
      <<<<"cell">>, StringValue(<<"B", "2">>)>>,
      <<<<"formula">>, StringValue(<<"SUM(Sheet1!A1:A10)">>)>> >>,
   << <<<<"type">>, StringValue(<<"update_formula">>)>>,
      <<<<"cell">>, StringValue(<<"B", "2">>)>>,
      <<<<"formula">>, StringValue(<<"=", "Current Value">>)>> >>,
   << <<<<"type">>, StringValue(<<"update_range">>)>>,
      <<<<"range">>, StringValue(<<"S", "!", "A", "1", ":", "B", "2">>)>>,
      <<<<"values">>, ArrayValue(<<ArrayValue(<<StringValue(<<"Total">>), LongCell>>)>>)>> >>,
   << <<<<"type">>, StringValue(<<"update_range">>)>>,
      <<<<"range">>, StringValue(<<"A", "1", ":", "B", "2">>)>>,
      <<<<"values">>, ArrayValue(<<StringValue(<<"x">>),
                                   ArrayValue(<<StringValue(<<"Total">>), LongCell>>)>>)>> >>,
   << <<<<"type">>, StringValue(<<"update_range">>)>>,
      <<<<"values">>, ArrayValue(<<ArrayValue(<<StringValue(<<"1">>)>>)>>)>> >>,
   << <<<<"type">>, StringValue(<<"update_range">>)>>,
      <<<<"values">>, ArrayValue(<<ArrayValue(<<DescriptiveText>>)>>)>> >>,
   << <<<<"type">>, StringValue(<<"update_range">>)>>,
      <<<<"range">>, StringValue(<<"S", "!", "A", "1", ":", "B", "2">>)>>,
      <<<<"values">>, ArrayValue(<<ArrayValue(<<StringValue(<<"1">>)>>),
                                   ArrayValue(<<StringValue(<<"2">>), TotalCell>>)>>)>> >>,
   << <<<<"type">>, StringValue(<<"update_range">>)>>,
      <<<<"range">>, [t |-> "number", v |-> <<"5">>]>>,
      <<<<"values">>, ArrayValue(<<ArrayValue(<<DescriptiveText>>)>>)>> >>,
   << <<<<"type">>, StringValue(<<"update_range">>)>>,
      <<<<"range">>, StringValue(<<"C", "5", ":", "D", "6">>)>>,
      <<<<"values">>, ArrayValue(<<ArrayValue(<<LongCell>>)>>)>> >>,
   << <<<<"type">>, StringValue(<<"update_range">>)>>,
      <<<<"range">>, StringValue(<<"S", "!", "C", "5", ":", "D", "6">>)>>,
      <<<<"values">>, ArrayValue(<<ArrayValue(<<DescriptiveText>>)>>)>> >>,
   << <<<<"type">>, StringValue(<<"update_range">>)>>,
      <<<<"range">>, StringValue(<<"A", "1", ":", "B", "2">>)>>,
      <<<<"values">>, ArrayValue(<<ArrayValue(<<StringValue(<<"Total">>)>>)>>)>> >>,
   << <<<<"type">>, StringValue(<<"update_formula">>)>>,
      <<<<"cell">>, StringValue(<<"B", "2">>)>>,
      <<<<"formula">>, StringValue(<<"Current Value">>)>> >>}

\* confidence as the model may leave it: absent, empty, set.
Confidences == {<<>>, << <<<<"confidence">>, StringValue(<<>>)>> >>,
                << <<<<"confidence">>, StringValue(<<"low">>)>> >>}

\* reasoning: absent or set.
Reasonings == {<<>>, << <<<<"reasoning">>, StringValue(<<"because">>)>> >>}

\* The responses processAIResponse is given: with an edit, without one,
\* and null.
PipelineInputs ==
  {ObjectValue(<< <<<<"response">>, StringValue(<<"ok">>)>>,
                  <<<<"edit">>, ObjectValue(b \o c \o r)>> >>) :
     b \in EditBases, c \in Confidences, r \in Reasonings}
    \cup {ObjectValue(<< <<<<"response">>, StringValue(<<"Hello">>)>> >>),
          [t |-> "null", v |-> <<"null">>]}

\* The edit a referee puts in its corrected response.
RefereeCorrection ==
  Obj(<<Member("response", Str(<<"fixed">>)),
        Member("edit", Obj(<<Member("type", Str(<<"update_formula">>)),
                             Member("cell", Str(<<"B", "2">>)),
                             Member("formula", Str(<<"=", "1">>))>>))>>)

\* Verdicts of the referee model, as the text it replies with.
RefereeReplies ==
  {Obj(<<Member("isValid", <<"true">>), Member("reason", Str(<<"ok">>))>>),
   Obj(<<Member("isValid", <<"false">>)>>),
   Obj(<<Member("isValid", <<"false">>), Member("correctedResponse", RefereeCorrection),
         Member("validationReason", Str(<<"r">>))>>),
   <<FENCE, JSONTAG, NL>>
     \o Obj(<<Member("isValid", <<"false">>), Member("correctedResponse", RefereeCorrection),
              Member("validationReason", Str(<<"r">>))>>)
     \o <<NL, FENCE>>,
   <<"Hello">>,
   <<"null">>}

\* What the call of the referee model does.
RefereeCalls ==
  {[threw |-> FALSE, reply |-> t] : t \in RefereeReplies}
    \cup {[threw |-> TRUE, reply |-> <<>>]}

NoRefereeCall == [threw |-> FALSE, reply |-> <<>>]

\* ------------------------------------------------------------ locator inputs

\* Most paragraphs of a document.
MaxParagraphs == 2

\* Longest findText drawn from every text over a, b and the space.
MaxFind == 3

\* The texts of paragraphs.
ParagraphTexts ==
  {<<>>, <<"a">>, <<"b">>, <<"a", "b">>, <<"b", "a">>, <<"a", " ", "b">>,
   <<"a", " ", " ", "b">>, <<" ", "a", "b", " ">>, <<"a", "b", "a">>,
   <<"b", " ", "a", " ", "b">>}

\* The documents: up to MaxParagraphs paragraphs.
LocatorContents == SeqsUpTo(ParagraphTexts, MaxParagraphs)

\* The texts to find: the short ones, and longer ones with irregular
\* spacing and with three words.
FindTexts ==
  SeqsUpTo({"a", "b", " "}, MaxFind)
    \cup {<<"a", " ", " ", "b">>, <<"a", TAB, "b">>, <<"b", " ", "a", " ", "b">>,
          <<"a", " ", "a", " ", "a">>, <<"a", " ", "b", " ", "b">>,
          <<"b", " ", " ", "a", " ", "b">>}

\* ------------------------------------------------------------ endpoint inputs

\* Requests to the HTTP endpoints of index.ts: message is read by chatHttp,
\* code by exchangeOAuthCode, operation and params by googleDriveOperations.
EndpointRequests ==
  [method : {"OPTIONS", "GET", "POST"},
   authorization : {"missing", "invalid", "valid"},
   message : BOOLEAN,
   code : BOOLEAN,
   operation : {"get_document", "update_range", "frobnicate"},
   params : {UpdateRangeParams(3)}]

NoEndpointRequest ==
  [method |-> "", authorization |-> "", message |-> FALSE, code |-> FALSE,
   operation |-> "", params |-> Undefined]

\* The HTTP endpoints of index.ts that act for a caller.
Endpoints == {"chatHttp", "railwayProxyHttp", "googleDriveOperations", "exchangeOAuthCode"}

\* ------------------------------------------------------------ FileList inputs

\* Time is counted in units of 500 ms.  The rate limiter of loadFiles lets a
\* request pass 2000 ms after the last one (part_005 line 209).
LimiterUnits == 4

\* The debounce delay of loadFiles, 500 ms (part_005 line 301).
DebounceUnits == 1

\* Last value of the clock of FileList.
MaxTime == 12

\* No state update of FileList waits for a render.
NothingPending == [user |-> FALSE, requests |-> {}]

\* ------------------------------------------------------------ state

VARIABLES
  jsonString,       \* the argument of fixCommonJsonIssues
  repaired,         \* what fixCommonJsonIssues returned for it
  repairedAgain,    \* what fixCommonJsonIssues returned for repaired
  repairPc,         \* "idle", "input", "repaired", "again"
  httpRequest,      \* the request chatHttp handles
  modelCall,        \* what callAIModel did for it: [threw, reply, object]
  httpResponse,     \* what chatHttp answered
  httpPc,           \* "idle", "request", "done"
  clock,            \* the latest reading of Date.now()
  chatHistory,      \* page.tsx: the messages
  pendingEdit,      \* page.tsx: <<>> for null, else <<the pending edit>>
  selectedFile,     \* page.tsx: <<>> for null, else <<the file>>
  documentContent,  \* page.tsx: <<>> for null, else <<the content>>
  loading,          \* page.tsx: a document is being loaded
  isLoading,        \* ChatPanel.tsx: a chat request is in flight
  chatRequest,      \* <<>>, or <<[newMessages, res]>>: the request of
                    \* sendMessage in flight, the messages its closure
                    \* holds and the response once the route has answered
  driveRequests,    \* the requests to googleDriveOperations in flight
  driveCalls,       \* the calls googleDriveOperations has applied to
                    \* documents and spreadsheets, oldest first
  driveDocument,    \* what docs.documents.get returns for the document
                    \* doc1: [body, content]
  spent,            \* how many actions the user has taken and how many
                    \* requests to googleDriveOperations there have been
  originalResponse, \* the response processAIResponse is given
  referee,          \* what the call of the referee model did
  currentResponse,  \* processAIResponse: currentResponse
  wasCorrected,     \* processAIResponse: wasCorrected
  processingSteps,  \* processAIResponse: processingSteps
  pipelinePc,       \* "idle", "validate", "patterns", "formulas", "quality", "done"
  locatorContent,   \* findTextWithFuzzyMatching: the texts of content
  locatorFindText,  \* findTextWithFuzzyMatching: findText
  locatorMatch,     \* what findTextWithFuzzyMatching returned
  locatorPc,        \* "idle", "call", "done"
  endpoint,         \* the HTTP endpoint of index.ts that handles a request
  endpointRequest,  \* the request it handles
  outbound,         \* the calls it made to services outside, oldest first
  endpointResponse, \* what it answered
  endpointPc,       \* "idle", "request", "done"
  mounted,          \* FileList is mounted
  signedIn,         \* FileList: user and sessionId are set
  fileClock,        \* Date.now(), in units of 500 ms
  lastRequestTime,  \* FileList: lastRequestTime, in the same units
  renderedLastRequestTime, \* lastRequestTime as the loadFiles of the last
                    \* render holds it
  debounceTimer,    \* <<>>, or <<[due, last]>>: the timeout loadFiles set
                    \* and lastRequestTime as its closure holds it
  abortController,  \* abortControllerRef.current: 0 for null, else the
                    \* number of the request it belongs to
  listRequests,     \* the list_files requests made: [n, state, by]; state
                    \* is "flight", "cancelled" (its signal is aborted),
                    \* "aborted" (its catch has run) or "done"; by is the
                    \* call of abort
  effectPending,    \* the state updates not yet rendered: [user, requests],
                    \* a change of user and sessionId, and the requests
                    \* whose setLastRequestTime changed lastRequestTime
  files,            \* "none", "files" or "error": what loadFiles delivered
  filesLoading      \* FileList: loading

repairVars == <<jsonString, repaired, repairedAgain, repairPc>>

httpVars == <<httpRequest, modelCall, httpResponse, httpPc>>

chatVars == <<clock, chatHistory, pendingEdit, selectedFile, documentContent, loading,
              isLoading, chatRequest, driveRequests, driveCalls, driveDocument, spent>>

pipelineVars == <<originalResponse, referee, currentResponse, wasCorrected,
                  processingSteps, pipelinePc>>

locatorVars == <<locatorContent, locatorFindText, locatorMatch, locatorPc>>

endpointVars == <<endpoint, endpointRequest, outbound, endpointResponse, endpointPc>>

filesVars == <<mounted, signedIn, fileClock, lastRequestTime, renderedLastRequestTime,
               debounceTimer, abortController, listRequests, effectPending, files,
               filesLoading>>

vars == <<jsonString, repaired, repairedAgain, repairPc,
          httpRequest, modelCall, httpResponse, httpPc,
          clock, chatHistory, pendingEdit, selectedFile, documentContent, loading,
          isLoading, chatRequest, driveRequests, driveCalls, driveDocument, spent,
          originalResponse, referee, currentResponse, wasCorrected,
          processingSteps, pipelinePc,
          locatorContent, locatorFindText, locatorMatch, locatorPc,
          endpoint, endpointRequest, outbound, endpointResponse, endpointPc,
          mounted, signedIn, fileClock, lastRequestTime, renderedLastRequestTime,
          debounceTimer, abortController, listRequests, effectPending, files, filesLoading>>

RepairIdle ==
  /\ jsonString = <<>>
  /\ repaired = <<>>
  /\ repairedAgain = <<>>
  /\ repairPc = "idle"

HttpIdle ==
  /\ httpRequest = [method |-> "POST", authorization |-> "valid", message |-> TRUE]
  /\ modelCall = NoModelCall
  /\ httpResponse = NoResponse
  /\ httpPc = "idle"

\* page.tsx lines 10-19 and ChatPanel.tsx lines 28-29: the state of a
\* session that has just started.
ChatIdle ==
  /\ clock = 0
  /\ chatHistory = <<>>
  /\ pendingEdit = <<>>
  /\ selectedFile = <<>>
  /\ documentContent = <<>>
  /\ loading = FALSE
  /\ isLoading = FALSE
  /\ chatRequest = <<>>
  /\ driveRequests = {}
  /\ driveCalls = <<>>
  /\ driveDocument = EmptyDocument
  /\ spent = [actions |-> 0, requests |-> 0]

PipelineIdle ==
  /\ originalResponse = Undefined
  /\ referee = NoRefereeCall
  /\ currentResponse = Undefined
  /\ wasCorrected = FALSE
  /\ processingSteps = <<>>
  /\ pipelinePc = "idle"

LocatorIdle ==
  /\ locatorContent = <<>>
  /\ locatorFindText = <<>>
  /\ locatorMatch = NoMatch
  /\ locatorPc = "idle"

EndpointIdle ==
  /\ endpoint = "none"
  /\ endpointRequest = NoEndpointRequest
  /\ outbound = <<>>
  /\ endpointResponse = NoResponse
  /\ endpointPc = "idle"

\* part_005 lines 18-31: FileList as it is mounted, before a user signs in.
FilesIdle ==
  /\ mounted = TRUE
  /\ signedIn = FALSE
  /\ fileClock = LimiterUnits
  /\ lastRequestTime = 0
  /\ renderedLastRequestTime = 0
  /\ debounceTimer = <<>>
  /\ abortController = 0
  /\ listRequests = {}
  /\ effectPending = NothingPending
  /\ files = "none"
  /\ filesLoading = FALSE

\* ---- the repair engine on its own

RepairInit ==
  /\ jsonString \in RepairInputs
  /\ repaired = <<>>
  /\ repairedAgain = <<>>
  /\ repairPc = "input"
  /\ HttpIdle
  /\ ChatIdle
  /\ PipelineIdle
  /\ LocatorIdle
  /\ EndpointIdle
  /\ FilesIdle

\* One call of fixCommonJsonIssues.
Repair ==
  /\ repairPc = "input"
  /\ repaired' = fixCommonJsonIssues(jsonString)
  /\ repairPc' = "repaired"
  /\ UNCHANGED <<jsonString, repairedAgain>>
  /\ UNCHANGED <<httpVars, chatVars, pipelineVars, locatorVars, endpointVars, filesVars>>

\* A second call, on the result of the first.
RepairAgain ==
  /\ repairPc = "repaired"
  /\ repairedAgain' = fixCommonJsonIssues(repaired)
  /\ repairPc' = "again"
  /\ UNCHANGED <<jsonString, repaired>>
  /\ UNCHANGED <<httpVars, chatVars, pipelineVars, locatorVars, endpointVars, filesVars>>

RepairNext == Repair \/ RepairAgain

SpecRepair == RepairInit /\ [][RepairNext]_vars

\* ---- chatHttp on its own

HttpInit ==
  /\ httpRequest \in HttpRequests
  /\ modelCall = NoModelCall
  /\ httpResponse = NoResponse
  /\ httpPc = "request"
  /\ RepairIdle
  /\ ChatIdle
  /\ PipelineIdle
  /\ LocatorIdle
  /\ EndpointIdle
  /\ FilesIdle

\* chatHttp answers without calling the model.
ChatHttpRefuses ==
  /\ httpPc = "request"
  /\ ~CallsModel(httpRequest)
  /\ httpResponse' = chatHttp(httpRequest, NoModelCall)
  /\ httpPc' = "done"
  /\ UNCHANGED <<httpRequest, modelCall>>
  /\ UNCHANGED <<repairVars, chatVars, pipelineVars, locatorVars, endpointVars, filesVars>>

\* chatHttp calls the model and answers from what the model did.
ChatHttpAnswers ==
  /\ httpPc = "request"
  /\ CallsModel(httpRequest)
  /\ \E m \in ModelCalls :
       /\ modelCall' = m
       /\ httpResponse' = chatHttp(httpRequest, m)
  /\ httpPc' = "done"
  /\ UNCHANGED httpRequest
  /\ UNCHANGED <<repairVars, chatVars, pipelineVars, locatorVars, endpointVars, filesVars>>

HttpNext == ChatHttpRefuses \/ ChatHttpAnswers

SpecHttp == HttpInit /\ [][HttpNext]_vars

\* ---- the chat session: ChatPanel, page.tsx and the two endpoints

ChatInit ==
  /\ ChatIdle
  /\ RepairIdle
  /\ HttpIdle
  /\ PipelineIdle
  /\ LocatorIdle
  /\ EndpointIdle
  /\ FilesIdle

\* The values Date.now() may return next: time does not run backwards.
Readings == {t \in {clock, clock + 1} : t <= MaxClock}

\* page.tsx lines 91-165, up to the fetch: loadDocumentContent(file) called
\* with the requests in flight being requests; user tells whether
\* auth.currentUser is set.  A request it sends takes the number n.
loadDocumentContent(file, user, requests, n) ==
  IF ~file.isGoogleDoc
    THEN /\ documentContent' =
              <<ErrorContent(file, StringValue(<<"This file type is not supported for viewing">>))>>
         /\ driveRequests' = requests
         /\ UNCHANGED loading
  ELSE IF ~user
    THEN /\ documentContent' =
              <<ErrorContent(file, StringValue(<<"Please sign in to view documents">>))>>
         /\ driveRequests' = requests
         /\ loading' = FALSE
  ELSE /\ loading' = TRUE
       /\ driveRequests' =
            requests \cup {Exchange(n, "load", LoadRequest(file), file, 0, <<>>)}
       /\ UNCHANGED documentContent

\* Whether loadDocumentContent sends a request.
SendsLoad(file, user) == file.isGoogleDoc /\ user

\* ChatPanel.tsx lines 42-63: sendMessage, for a message that is not blank,
\* up to the request.
SendMessage ==
  /\ ~isLoading
  /\ spent.actions < MaxActions
  /\ \E now \in Readings :
       LET userMessage == Message(now, "user", StringValue(<<"hi">>), Undefined)
           newMessages == Append(chatHistory, userMessage)
       IN /\ clock' = now
          /\ chatHistory' = newMessages
          /\ chatRequest' = <<[newMessages |-> newMessages, res |-> <<>>]>>
  /\ isLoading' = TRUE
  /\ spent' = [spent EXCEPT !.actions = @ + 1]
  /\ UNCHANGED <<pendingEdit, selectedFile, documentContent, loading,
                 driveRequests, driveCalls, driveDocument>>
  /\ UNCHANGED <<repairVars, httpVars, pipelineVars, locatorVars, endpointVars, filesVars>>

\* api/chat/route.ts and chatHttp answer the request of sendMessage.
ChatRouteAnswers ==
  /\ chatRequest # <<>>
  /\ chatRequest[1].res = <<>>
  /\ \E r \in ChatRouteResponses :
       chatRequest' = <<[chatRequest[1] EXCEPT !.res = <<r>>]>>
  /\ UNCHANGED <<clock, chatHistory, pendingEdit, selectedFile, documentContent,
                 loading, isLoading, driveRequests, driveCalls, driveDocument, spent>>
  /\ UNCHANGED <<repairVars, httpVars, pipelineVars, locatorVars, endpointVars, filesVars>>

\* ChatPanel.tsx lines 97-132 and 159-161: sendMessage after the response.
ReceiveReply ==
  /\ chatRequest # <<>>
  /\ chatRequest[1].res # <<>>
  /\ \E now \in Readings :
       LET res == chatRequest[1].res
           edit == Get(res[1].body, <<"edit">>)
       IN /\ clock' = now
          /\ chatHistory' = Append(chatRequest[1].newMessages, AssistantMessage(res, now))
          /\ pendingEdit' = IF IsOk(res[1]) /\ Truthy(edit)
                              THEN <<PendingEditOf(now + 1, edit)>>
                              ELSE pendingEdit
  /\ isLoading' = FALSE
  /\ chatRequest' = <<>>
  /\ UNCHANGED <<selectedFile, documentContent, loading, driveRequests, driveCalls, driveDocument, spent>>
  /\ UNCHANGED <<repairVars, httpVars, pipelineVars, locatorVars, endpointVars, filesVars>>

\* ChatPanel.tsx lines 71-73 and 133-161: no user is signed in, or the
\* fetch throws.
SendFails ==
  /\ chatRequest # <<>>
  /\ \E now \in Readings :
       /\ clock' = now
       /\ chatHistory' = Append(chatRequest[1].newMessages, AssistantMessage(<<>>, now))
  /\ isLoading' = FALSE
  /\ chatRequest' = <<>>
  /\ UNCHANGED <<pendingEdit, selectedFile, documentContent, loading,
                 driveRequests, driveCalls, driveDocument, spent>>
  /\ UNCHANGED <<repairVars, httpVars, pipelineVars, locatorVars, endpointVars, filesVars>>

\* page.tsx lines 168-171.
handleFileSelect ==
  /\ spent.actions < MaxActions
  /\ \E file \in Files, user \in BOOLEAN :
       /\ selectedFile' = <<file>>
       /\ loadDocumentContent(file, user, driveRequests, spent.requests + 1)
       /\ spent' = [spent EXCEPT !.actions = @ + 1,
                                 !.requests = @ + IF SendsLoad(file, user) THEN 1 ELSE 0]
  /\ UNCHANGED <<clock, chatHistory, pendingEdit, isLoading, chatRequest, driveCalls, driveDocument>>
  /\ UNCHANGED <<repairVars, httpVars, pipelineVars, locatorVars, endpointVars, filesVars>>

\* page.tsx lines 174-203: handleAcceptEdit up to the request, for a click
\* on the Accept button of a message, with a user signed in and a file
\* selected (without either it returns at once).
handleAcceptEdit ==
  /\ spent.actions < MaxActions
  /\ selectedFile # <<>>
  /\ \E i \in 1..Len(chatHistory) :
       /\ ShowsButtons(chatHistory[i])
       /\ LET messageId == chatHistory[i].id
              message == chatHistory[Find(chatHistory, messageId)]
          IN /\ Truthy(message.editProposal)
             /\ driveRequests' =
                  driveRequests \cup
                    {Exchange(spent.requests + 1, "accept",
                              AcceptRequest(selectedFile[1], message.editProposal),
                              selectedFile[1], messageId, chatHistory)}
  /\ spent' = [spent EXCEPT !.actions = @ + 1, !.requests = @ + 1]
  /\ UNCHANGED <<clock, chatHistory, pendingEdit, selectedFile, documentContent,
                 loading, isLoading, chatRequest, driveCalls, driveDocument>>
  /\ UNCHANGED <<repairVars, httpVars, pipelineVars, locatorVars, endpointVars, filesVars>>

\* index.ts lines 1101-1111: the request as the handler sees it once
\* verifyIdToken has accepted its token or not.
Verified(req, verified) ==
  [req EXCEPT !.authorization =
                IF @ = "missing" THEN @ ELSE IF verified THEN "valid" ELSE "invalid"]

\* index.ts lines 1082-1649: googleDriveOperations handles a request in
\* flight; verified tells whether verifyIdToken accepts its token.
GoogleDriveOperations ==
  /\ \E x \in driveRequests, google \in {"ok", "no_tokens", "throws", "throws_second"},
        verified \in BOOLEAN :
       /\ x.res = <<>>
       /\ \E answer \in {googleDriveOperations(Verified(x.req, verified), google,
                                               driveDocument, driveCalls)} :
            /\ driveCalls' = driveCalls \o answer.calls
            /\ driveDocument' = Rewritten(driveDocument, answer.calls)
            /\ driveRequests' =
                 (driveRequests \ {x}) \cup {[x EXCEPT !.res = <<answer.res>>]}
  /\ UNCHANGED <<clock, chatHistory, pendingEdit, selectedFile, documentContent,
                 loading, isLoading, chatRequest, spent>>
  /\ UNCHANGED <<repairVars, httpVars, pipelineVars, locatorVars, endpointVars, filesVars>>

\* A handleAcceptEdit that does not look at response.ok.
AcceptSettles_WithoutOkTest ==
  /\ \E x \in driveRequests, user \in BOOLEAN :
       /\ x.kind = "accept"
       /\ x.res # <<>>
       /\ chatHistory' = WithStatus(x.chatHistory, x.messageId, "accepted")
       /\ pendingEdit' = <<>>
       /\ loadDocumentContent(x.file, user, driveRequests \ {x}, spent.requests + 1)
       /\ spent' = [spent EXCEPT
                      !.requests = @ + IF SendsLoad(x.file, user) THEN 1 ELSE 0]
  /\ UNCHANGED <<clock, selectedFile, isLoading, chatRequest, driveCalls, driveDocument>>
  /\ UNCHANGED <<repairVars, httpVars, pipelineVars, locatorVars, endpointVars, filesVars>>

\* page.tsx lines 205-223: handleAcceptEdit after the response.
AcceptSettles ==
  /\ \E x \in driveRequests, user \in BOOLEAN :
       /\ x.kind = "accept"
       /\ x.res # <<>>
       /\ IF IsOk(x.res[1])
            THEN /\ chatHistory' = WithStatus(x.chatHistory, x.messageId, "accepted")
                 /\ pendingEdit' = <<>>
                 /\ loadDocumentContent(x.file, user, driveRequests \ {x},
                                        spent.requests + 1)
                 /\ spent' = [spent EXCEPT
                                !.requests = @ + IF SendsLoad(x.file, user) THEN 1 ELSE 0]
            ELSE /\ driveRequests' = driveRequests \ {x}
                 /\ UNCHANGED <<chatHistory, pendingEdit, documentContent, loading, spent>>
  /\ UNCHANGED <<clock, selectedFile, isLoading, chatRequest, driveCalls, driveDocument>>
  /\ UNCHANGED <<repairVars, httpVars, pipelineVars, locatorVars, endpointVars, filesVars>>

\* page.tsx lines 224-226: the fetch of handleAcceptEdit throws.
AcceptFails ==
  /\ \E x \in driveRequests :
       /\ x.kind = "accept"
       /\ driveRequests' = driveRequests \ {x}
  /\ UNCHANGED <<clock, chatHistory, pendingEdit, selectedFile, documentContent,
                 loading, isLoading, chatRequest, driveCalls, driveDocument, spent>>
  /\ UNCHANGED <<repairVars, httpVars, pipelineVars, locatorVars, endpointVars, filesVars>>

\* page.tsx lines 137-164: loadDocumentContent after the response.
LoadSettles ==
  /\ \E x \in driveRequests :
       /\ x.kind = "load"
       /\ x.res # <<>>
       /\ LET data == x.res[1].body
              error == Get(data, <<"error">>)
          IN documentContent' =
               IF ~IsOk(x.res[1])
                 THEN <<ErrorContent(x.file,
                          IF Truthy(error) THEN error
                          ELSE StringValue(<<"Failed to load document">>))>>
               ELSE IF Truthy(Get(data, <<"result">>)) THEN <<Get(data, <<"result">>)>>
               ELSE IF Truthy(error) THEN <<ErrorContent(x.file, error)>>
               ELSE documentContent
       /\ driveRequests' = driveRequests \ {x}
  /\ loading' = FALSE
  /\ UNCHANGED <<clock, chatHistory, pendingEdit, selectedFile, isLoading,
                 chatRequest, driveCalls, driveDocument, spent>>
  /\ UNCHANGED <<repairVars, httpVars, pipelineVars, locatorVars, endpointVars, filesVars>>

\* page.tsx lines 154-164: the fetch of loadDocumentContent throws.
LoadFails ==
  /\ \E x \in driveRequests :
       /\ x.kind = "load"
       /\ documentContent' = <<ErrorContent(x.file, StringValue(<<"Failed to fetch">>))>>
       /\ driveRequests' = driveRequests \ {x}
  /\ loading' = FALSE
  /\ UNCHANGED <<clock, chatHistory, pendingEdit, selectedFile, isLoading,
                 chatRequest, driveCalls, driveDocument, spent>>
  /\ UNCHANGED <<repairVars, httpVars, pipelineVars, locatorVars, endpointVars, filesVars>>

\* page.tsx lines 230-241, for a click on the Reject button of a message.
handleRejectEdit ==
  /\ \E i \in 1..Len(chatHistory) :
       /\ ShowsButtons(chatHistory[i])
       /\ chatHistory' = WithStatus(chatHistory, chatHistory[i].id, "rejected")
  /\ pendingEdit' = <<>>
  /\ UNCHANGED <<clock, selectedFile, documentContent, loading, isLoading,
                 chatRequest, driveRequests, driveCalls, driveDocument, spent>>
  /\ UNCHANGED <<repairVars, httpVars, pipelineVars, locatorVars, endpointVars, filesVars>>

ChatNext ==
  \/ SendMessage
  \/ ChatRouteAnswers
  \/ ReceiveReply
  \/ SendFails
  \/ handleFileSelect
  \/ handleAcceptEdit
  \/ GoogleDriveOperations
  \/ AcceptSettles
  \/ AcceptFails
  \/ LoadSettles
  \/ LoadFails
  \/ handleRejectEdit

SpecChat == ChatInit /\ [][ChatNext]_vars

\* ---- a proposal on its way through Accept and Reject

\* The session after one chat message was answered with an edit, with a
\* file selected and shown: what SendMessage, ChatRouteAnswers,
\* ReceiveReply, handleFileSelect, GoogleDriveOperations and LoadSettles
\* lead to.
ApplyInit ==
  /\ clock = 0
  /\ \E r \in ChatRouteResponses, file \in Files :
       /\ IsOk(r)
       /\ Truthy(Get(r.body, <<"edit">>))
       /\ chatHistory = <<Message(0, "user", StringValue(<<"hi">>), Undefined),
                          AssistantMessage(<<r>>, 0)>>
       /\ pendingEdit = <<PendingEditOf(1, Get(r.body, <<"edit">>))>>
       /\ selectedFile = <<file>>
       /\ documentContent =
            IF file.isGoogleDoc
              THEN <<Get(googleDriveOperations(Verified(LoadRequest(file), TRUE), "ok",
                                               EmptyDocument, <<>>).res.body,
                         <<"result">>)>>
              ELSE <<ErrorContent(file, StringValue(<<"This file type is not supported for viewing">>))>>
  /\ loading = FALSE
  /\ isLoading = FALSE
  /\ chatRequest = <<>>
  /\ driveRequests = {}
  /\ driveCalls = <<>>
  /\ driveDocument = EmptyDocument
  /\ spent = [actions |-> 0, requests |-> 1]
  /\ RepairIdle
  /\ HttpIdle
  /\ PipelineIdle
  /\ LocatorIdle
  /\ EndpointIdle
  /\ FilesIdle

ApplyNext ==
  \/ handleAcceptEdit
  \/ GoogleDriveOperations
  \/ AcceptSettles
  \/ AcceptFails
  \/ LoadSettles
  \/ LoadFails
  \/ handleRejectEdit

SpecApply == ApplyInit /\ [][ApplyNext]_vars

\* ---- the HTTP endpoints on their own

\* A request arrives at one of the endpoints.
EndpointInit ==
  /\ endpoint \in Endpoints
  /\ endpointRequest \in EndpointRequests
  /\ outbound = <<>>
  /\ endpointResponse = NoResponse
  /\ endpointPc = "request"
  /\ RepairIdle
  /\ HttpIdle
  /\ ChatIdle
  /\ PipelineIdle
  /\ LocatorIdle
  /\ FilesIdle

\* The endpoint answers with what it did.
EndpointDone(answer) ==
  /\ endpointResponse' = answer.res
  /\ outbound' = answer.outbound
  /\ endpointPc' = "done"
  /\ UNCHANGED <<endpoint, endpointRequest>>
  /\ UNCHANGED <<repairVars, httpVars, chatVars, pipelineVars, locatorVars, filesVars>>

\* index.ts lines 329-978.
HandleChatHttp ==
  /\ endpointPc = "request"
  /\ endpoint = "chatHttp"
  /\ \E model \in {ModelThrows, [threw |-> FALSE, reply |-> <<"Hello">>, object |-> <<>>]} :
       EndpointDone(chatHttpEndpoint(endpointRequest, model))

\* index.ts lines 981-1022.
HandleRailwayProxyHttp ==
  /\ endpointPc = "request"
  /\ endpoint = "railwayProxyHttp"
  /\ \E railway \in {"ok", "throws"} :
       EndpointDone(railwayProxyHttp(endpointRequest, railway))

\* index.ts lines 1078-1649.
HandleGoogleDriveOperations ==
  /\ endpointPc = "request"
  /\ endpoint = "googleDriveOperations"
  /\ \E google \in {"ok", "no_tokens", "throws"} :
       EndpointDone(googleDriveEndpoint(endpointRequest, google, EmptyDocument))

\* index.ts lines 1713-1776.
HandleExchangeOAuthCode ==
  /\ endpointPc = "request"
  /\ endpoint = "exchangeOAuthCode"
  /\ \E google \in {"ok", "throws"} :
       EndpointDone(exchangeOAuthCode(endpointRequest, google))

EndpointNext ==
  \/ HandleChatHttp
  \/ HandleRailwayProxyHttp
  \/ HandleGoogleDriveOperations
  \/ HandleExchangeOAuthCode

SpecEndpoints == EndpointInit /\ [][EndpointNext]_vars

\* ---- FileList on its own

FilesInit ==
  /\ FilesIdle
  /\ RepairIdle
  /\ HttpIdle
  /\ ChatIdle
  /\ PipelineIdle
  /\ LocatorIdle
  /\ EndpointIdle

\* abortControllerRef.current.abort() (part_005 lines 193-195, 340-342),
\* called by by: the request of the controller, if it is in flight, has its
\* signal aborted.
Abort(requests, controller, by) ==
  {IF x.n = controller /\ x.state = "flight"
     THEN [x EXCEPT !.state = "cancelled", !.by = by] ELSE x : x \in requests}

\* part_005 lines 189-303, up to the timeout: loadFiles called by by, with
\* last the lastRequestTime its closure holds; user is set.
loadFiles(by, last) ==
  /\ listRequests' = Abort(listRequests, abortController, by)
  /\ debounceTimer' = <<[due |-> fileClock + DebounceUnits, last |-> last]>>
  /\ UNCHANGED abortController

\* part_005 lines 309-320: the listener of onAuthStateChanged is told of a
\* user; setUser and setSessionId.
AuthStateChanged ==
  /\ mounted /\ ~signedIn
  /\ signedIn' = TRUE
  /\ effectPending' = [effectPending EXCEPT !.user = TRUE]
  /\ UNCHANGED <<mounted, fileClock, lastRequestTime, renderedLastRequestTime,
                 debounceTimer, abortController, listRequests, files, filesLoading>>
  /\ UNCHANGED <<repairVars, httpVars, chatVars, pipelineVars, locatorVars, endpointVars>>

\* The render after state updates and, lines 322-327, the load effect: one
\* of its dependencies sessionId, user and loadFiles has changed (loadFiles
\* is made anew when user or lastRequestTime changes, line 303).
RunEffect ==
  /\ mounted
  /\ effectPending # NothingPending
  /\ renderedLastRequestTime' = lastRequestTime
  /\ effectPending' = NothingPending
  /\ IF signedIn
       THEN loadFiles([call |-> "effect", causes |-> effectPending.requests], lastRequestTime)
       ELSE UNCHANGED <<listRequests, debounceTimer, abortController>>
  /\ UNCHANGED <<mounted, signedIn, fileClock, lastRequestTime, files, filesLoading>>
  /\ UNCHANGED <<repairVars, httpVars, chatVars, pipelineVars, locatorVars, endpointVars>>

\* Line 416: a click on Refresh, with the loadFiles of the last render.
Refresh ==
  /\ mounted /\ signedIn
  /\ effectPending = NothingPending
  /\ loadFiles([call |-> "refresh", causes |-> {}], renderedLastRequestTime)
  /\ UNCHANGED <<mounted, signedIn, fileClock, lastRequestTime, renderedLastRequestTime,
                 effectPending, files, filesLoading>>
  /\ UNCHANGED <<repairVars, httpVars, chatVars, pipelineVars, locatorVars, endpointVars>>

\* Lines 204-239 and 297-301: the timeout of loadFiles fires.  Within
\* LimiterUnits of the lastRequestTime of its closure it shows a toast and
\* returns; otherwise it sets lastRequestTime and loading, makes a new
\* AbortController and sends the request.
TimerFires ==
  /\ debounceTimer # <<>>
  /\ fileClock >= debounceTimer[1].due
  /\ debounceTimer' = <<>>
  /\ IF fileClock - debounceTimer[1].last < LimiterUnits
       THEN /\ filesLoading' = FALSE
            /\ UNCHANGED <<lastRequestTime, abortController, listRequests, effectPending>>
       ELSE /\ lastRequestTime' = fileClock
            /\ filesLoading' = TRUE
            /\ abortController' = Cardinality(listRequests) + 1
            /\ listRequests' = listRequests \cup
                 {[n |-> Cardinality(listRequests) + 1, state |-> "flight",
                   by |-> [call |-> "none", causes |-> {}]]}
            /\ effectPending' =
                 IF fileClock # lastRequestTime
                   THEN [effectPending EXCEPT !.requests = @ \cup {Cardinality(listRequests) + 1}]
                   ELSE effectPending
  /\ UNCHANGED <<mounted, signedIn, fileClock, renderedLastRequestTime, files>>
  /\ UNCHANGED <<repairVars, httpVars, chatVars, pipelineVars, locatorVars, endpointVars>>

\* Time passes; a timeout that is due fires first.
Tick ==
  /\ fileClock < MaxTime
  /\ IF debounceTimer = <<>> THEN TRUE ELSE fileClock < debounceTimer[1].due
  /\ fileClock' = fileClock + 1
  /\ UNCHANGED <<mounted, signedIn, lastRequestTime, renderedLastRequestTime, debounceTimer,
                 abortController, listRequests, effectPending, files, filesLoading>>
  /\ UNCHANGED <<repairVars, httpVars, chatVars, pipelineVars, locatorVars, endpointVars>>

\* Lines 240-267 and 276-299: the request returns, with the file list or
\* with an error.
Responds ==
  /\ \E x \in listRequests, outcome \in {"files", "error"} :
       /\ x.state = "flight"
       /\ listRequests' = (listRequests \ {x}) \cup {[x EXCEPT !.state = "done"]}
       /\ files' = outcome
  /\ filesLoading' = FALSE
  /\ UNCHANGED <<mounted, signedIn, fileClock, lastRequestTime, renderedLastRequestTime,
                 debounceTimer, abortController, effectPending>>
  /\ UNCHANGED <<repairVars, httpVars, chatVars, pipelineVars, locatorVars, endpointVars>>

\* Lines 268-274 and 297-299: the fetch of a request whose signal is aborted
\* rejects with an AbortError, which is not shown.
AbortSettles ==
  /\ \E x \in listRequests :
       /\ x.state = "cancelled"
       /\ listRequests' = (listRequests \ {x}) \cup {[x EXCEPT !.state = "aborted"]}
  /\ filesLoading' = FALSE
  /\ UNCHANGED <<mounted, signedIn, fileClock, lastRequestTime, renderedLastRequestTime,
                 debounceTimer, abortController, effectPending, files>>
  /\ UNCHANGED <<repairVars, httpVars, chatVars, pipelineVars, locatorVars, endpointVars>>

\* Lines 175-185: handleSignOut.
handleSignOut ==
  /\ mounted /\ signedIn
  /\ signedIn' = FALSE
  /\ files' = "none"
  /\ effectPending' = [effectPending EXCEPT !.user = TRUE]
  /\ UNCHANGED <<mounted, fileClock, lastRequestTime, renderedLastRequestTime,
                 debounceTimer, abortController, listRequests, filesLoading>>
  /\ UNCHANGED <<repairVars, httpVars, chatVars, pipelineVars, locatorVars, endpointVars>>

\* Lines 330-346: the cleanup when FileList is unmounted.
Unmount ==
  /\ mounted
  /\ mounted' = FALSE
  /\ debounceTimer' = <<>>
  /\ listRequests' = Abort(listRequests, abortController, [call |-> "unmount", causes |-> {}])
  /\ abortController' = 0
  /\ UNCHANGED <<signedIn, fileClock, lastRequestTime, renderedLastRequestTime,
                 effectPending, files, filesLoading>>
  /\ UNCHANGED <<repairVars, httpVars, chatVars, pipelineVars, locatorVars, endpointVars>>

FilesNext ==
  \/ AuthStateChanged
  \/ RunEffect
  \/ Refresh
  \/ TimerFires
  \/ Tick
  \/ Responds
  \/ AbortSettles
  \/ handleSignOut
  \/ Unmount

SpecFiles == FilesInit /\ [][FilesNext]_vars

\* ---- googleDriveOperations on its own

\* A client has posted a request; a document may have been changed before.
DriveInit ==
  /\ \E req \in ClientRequests \cup EditRequests :
       driveRequests = {Exchange(1, "client", req, NoFile, 0, <<>>)}
  /\ driveCalls \in {<<>>, googleDriveOperations(EarlierRequest, "ok", EmptyDocument, <<>>).calls}
  /\ driveDocument \in DocsDocuments
  /\ clock = 0
  /\ chatHistory = <<>>
  /\ pendingEdit = <<>>
  /\ selectedFile = <<>>
  /\ documentContent = <<>>
  /\ loading = FALSE
  /\ isLoading = FALSE
  /\ chatRequest = <<>>
  /\ spent = [actions |-> 0, requests |-> 1]
  /\ RepairIdle
  /\ HttpIdle
  /\ PipelineIdle
  /\ LocatorIdle
  /\ EndpointIdle
  /\ FilesIdle

\* The client receives the response.
ClientSettles ==
  /\ \E x \in driveRequests :
       /\ x.kind = "client"
       /\ x.res # <<>>
       /\ driveRequests' = driveRequests \ {x}
  /\ UNCHANGED <<clock, chatHistory, pendingEdit, selectedFile, documentContent,
                 loading, isLoading, chatRequest, driveCalls, driveDocument, spent>>
  /\ UNCHANGED <<repairVars, httpVars, pipelineVars, locatorVars, endpointVars, filesVars>>

DriveNext == GoogleDriveOperations \/ ClientSettles

SpecDrive == DriveInit /\ [][DriveNext]_vars

\* ---- processAIResponse on its own

PipelineInit ==
  /\ originalResponse \in PipelineInputs
  /\ referee = NoRefereeCall
  /\ currentResponse = originalResponse
  /\ wasCorrected = FALSE
  /\ processingSteps = <<>>
  /\ pipelinePc = "validate"
  /\ RepairIdle
  /\ HttpIdle
  /\ ChatIdle
  /\ LocatorIdle
  /\ EndpointIdle
  /\ FilesIdle

\* What a pass adds to processingSteps.
StepLog(step, pass, corrected, reason) ==
  <<<<step>>, IF corrected THEN <<pass, " corrected response: ">> \o reason
              ELSE <<pass, " passed">>>>

\* response-processor.ts lines 26-45.
ValidateStep ==
  /\ pipelinePc = "validate"
  /\ \E call \in RefereeCalls :
     \E validationResult \in {validateAndFixResponse(currentResponse, call)} :
       LET corrected == ~validationResult.isValid
                          /\ Truthy(validationResult.correctedResponse)
       IN /\ referee' = call
          /\ currentResponse' = IF corrected THEN validationResult.correctedResponse
                                ELSE currentResponse
          /\ wasCorrected' = (wasCorrected \/ corrected)
          /\ processingSteps' =
               processingSteps \o
                 StepLog("Step 1: Multi-Model Validation", "Validation", corrected,
                         Text(validationResult.validationReason))
  /\ pipelinePc' = "patterns"
  /\ UNCHANGED originalResponse
  /\ UNCHANGED <<repairVars, httpVars, chatVars, locatorVars, endpointVars, filesVars>>

\* Lines 51-60, 66-75 and 81-90: a pass and what processAIResponse does
\* with its result.
ApplyPass(result, step, pass) ==
  /\ currentResponse' = IF result.wasCorrected THEN result.correctedResponse
                        ELSE currentResponse
  /\ wasCorrected' = (wasCorrected \/ result.wasCorrected)
  /\ processingSteps' =
       processingSteps \o StepLog(step, pass, result.wasCorrected, result.reason)
  /\ UNCHANGED <<originalResponse, referee>>
  /\ UNCHANGED <<repairVars, httpVars, chatVars, locatorVars, endpointVars, filesVars>>

\* Lines 47-60.
PatternStep ==
  /\ pipelinePc = "patterns"
  /\ ApplyPass(detectAndFixPatterns(currentResponse),
               "Step 2: Rule-Based Pattern Detection", "Pattern detection")
  /\ pipelinePc' = "formulas"

\* Lines 62-75.
FormulaStep ==
  /\ pipelinePc = "formulas"
  /\ ApplyPass(validateFormulas(currentResponse),
               "Step 3: Formula Validation", "Formula validation")
  /\ pipelinePc' = "quality"

\* Lines 77-98.
QualityStep ==
  /\ pipelinePc = "quality"
  /\ ApplyPass(finalQualityCheck(currentResponse),
               "Step 4: Final Quality Check", "Final quality check")
  /\ pipelinePc' = "done"

PipelineNext == ValidateStep \/ PatternStep \/ FormulaStep \/ QualityStep

SpecPipeline == PipelineInit /\ [][PipelineNext]_vars

\* ---- findTextWithFuzzyMatching on its own

LocatorInit ==
  /\ locatorContent \in LocatorContents
  /\ locatorFindText \in FindTexts
  /\ locatorMatch = NoMatch
  /\ locatorPc = "call"
  /\ RepairIdle
  /\ HttpIdle
  /\ ChatIdle
  /\ PipelineIdle
  /\ EndpointIdle
  /\ FilesIdle

\* page.tsx lines 244-296.
Locate ==
  /\ locatorPc = "call"
  /\ locatorMatch' = findTextWithFuzzyMatching(locatorContent, locatorFindText)
  /\ locatorPc' = "done"
  /\ UNCHANGED <<locatorContent, locatorFindText>>
  /\ UNCHANGED <<repairVars, httpVars, chatVars, pipelineVars, endpointVars, filesVars>>

LocatorNext == Locate

SpecLocator == LocatorInit /\ [][LocatorNext]_vars

\* ------------------------------------------------------------ claims C1-C4

\* The input reads as JSON once literal newlines are allowed inside its
\* string literals, and not as it stands: some string holds a literal newline.
NewlinesInStrings(s) == ParseText(s, FALSE).ok /\ ~JSONParse(s).ok

\* C1: whatever the input, fixCommonJsonIssues returns a string JSON.parse
\* accepts or the very string it was given, never a patched string that
\* still fails to parse.
C1_ParsesOrOriginal ==
  /\ repairPc # "input" => JSONParse(repaired).ok \/ repaired = jsonString
  /\ repairPc = "again" => JSONParse(repairedAgain).ok \/ repairedAgain = repaired

\* C1 witness: an input that did not parse came back patched.
C1_Witness ==
  /\ repairPc = "repaired"
  /\ ~JSONParse(jsonString).ok
  /\ repaired # jsonString

\* C2: an input that already parses, whitespace around it included, comes
\* back character for character, and repairing a result again returns it as it is.
C2_ValidUnchanged ==
  /\ repairPc # "input" /\ JSONParse(jsonString).ok => repaired = jsonString
  /\ repairPc = "again" => repairedAgain = repaired

\* C2 witness: a parsing input with whitespace in front went through both calls.
C2_Witness ==
  /\ repairPc = "again"
  /\ JSONParse(jsonString).ok
  /\ Len(jsonString) > 1
  /\ Head(jsonString) \in WhiteSpace

\* C3: an input that is well-formed but for literal newlines inside its
\* string literals comes back as a string that parses, and parses to the
\* value of the input with a newline character at each of those places.
C3_NewlinesEscaped ==
  repairPc = "repaired" /\ NewlinesInStrings(jsonString)
    => /\ JSONParse(repaired).ok
       /\ JSONParse(repaired).val = ParseText(jsonString, FALSE).val

\* C4: a JSON text cut short of exactly n closing braces comes back with
\* exactly n closing braces appended, whatever its string literals hold.
C4_ExactBraces ==
  \A n \in 1..MaxDrop :
    repairPc = "repaired" /\ JSONParse(jsonString \o Repeat(RBRACE, n)).ok
      => repaired = Trim(jsonString) \o Repeat(RBRACE, n)

\* ------------------------------------------------------------ claims C5-C6

\* chatHttp called the model, which returned a reply, and has answered.
AnsweredReply ==
  httpPc = "done" /\ CallsModel(httpRequest) /\ ~modelCall.threw

\* Neither attempt of chatHttp on the reply ends with text JSON.parse accepts.
NothingParses(response) ==
  /\ ~JSONParse(fixCommonJsonIssues(ExtractFromCodeBlock(Trim(response)))).ok
  /\ BraceSpan(response).found
       => ~JSONParse(fixCommonJsonIssues(BraceSpan(response).text)).ok

\* C5: a reply holding one well-formed edit object, be it the whole reply,
\* inside a code fence (tagged json or not) or between prose, is answered
\* with that object, parsed, as the edit proposal.
C5_EditObjectReturned ==
  AnsweredReply /\ modelCall.object # <<>>
    => httpResponse = HttpResponse(200, JSONParse(modelCall.object).val)

\* C6: when neither the direct extraction nor the text between the first
\* opening and the last closing brace parses, chatHttp answers 200 with
\* { response: the raw reply }: no error response and no edit proposal.
C6_PlainTextOnFailure ==
  AnsweredReply /\ NothingParses(modelCall.reply)
    => httpResponse = HttpResponse(200, PlainTextBody(modelCall.reply))

\* C6 witness: both attempts were made on a reply with braces and both
\* failed to parse.
C6_Witness ==
  /\ AnsweredReply
  /\ NothingParses(modelCall.reply)
  /\ BraceSpan(modelCall.reply).found
  /\ httpResponse.status = 200


\* ------------------------------------------------------------ claims C7-C9

\* types/index.ts line 53: the eleven kinds of edit.
EditTypes ==
  {"replace", "insert", "delete", "rewrite", "update_cell", "update_range",
   "insert_row", "insert_column", "delete_row", "delete_column", "update_formula"}

KnownType(type) == \E kind \in EditTypes : Is(type, kind)

\* The number of a column letter.
ColumnOf(letter) == CHOOSE n \in 1..4 : <<"A", "B", "C", "D">>[n] = letter

\* The number of columns of a range written as letter, digit, colon,
\* letter, digit.
ColumnSpan(range) == ColumnOf(range.v[4]) - ColumnOf(range.v[1]) + 1

\* Some row of values is not as wide as range.
WidthMismatch(range, values) ==
  /\ range.t = "string"
  /\ values.t = "array"
  /\ \E r \in 1..Len(values.v) :
       values.v[r].t = "array" /\ Len(values.v[r].v) # ColumnSpan(range)

\* C7: an edit whose type is none of the eleven kinds is on no chat
\* message as an edit proposal, and no request to change a document is in
\* flight for one.
C7_UnknownTypeRejected ==
  /\ \A k \in 1..Len(chatHistory) :
       Truthy(chatHistory[k].editProposal)
         => KnownType(Get(chatHistory[k].editProposal, <<"type">>))
  /\ \A x \in driveRequests :
       x.kind = "accept"
         => KnownType(Get(x.chatHistory[Find(x.chatHistory, x.messageId)].editProposal,
                          <<"type">>))

\* C8: an update_range edit with a row of values that is not as wide as its
\* range is not answered as an edit proposal, and no such values are
\* written to a spreadsheet.
C8_WidthMismatchRejected ==
  /\ chatRequest # <<>> /\ chatRequest[1].res # <<>> /\ IsOk(chatRequest[1].res[1])
       => LET edit == Get(chatRequest[1].res[1].body, <<"edit">>)
          IN ~(/\ Is(Get(edit, <<"type">>), "update_range")
               /\ WidthMismatch(Get(edit, <<"range">>), Get(edit, <<"values">>)))
  /\ \A k \in 1..Len(driveCalls) :
       driveCalls[k].api = "sheets.spreadsheets.values.update"
         => ~WidthMismatch(driveCalls[k].range, driveCalls[k].values)

\* C9: an edit proposal of type rewrite stored on a chat message has
\* neither findText nor replaceText.
C9_RewriteHasNoFindText ==
  \A k \in 1..Len(chatHistory) :
    LET editProposal == chatHistory[k].editProposal
    IN Truthy(editProposal) /\ Is(Get(editProposal, <<"type">>), "rewrite")
         => /\ Get(editProposal, <<"findText">>).t = "undefined"
            /\ Get(editProposal, <<"replaceText">>).t = "undefined"

\* ------------------------------------------------------------ claim C10

\* C10: once processAIResponse has run finalQualityCheck, a response that
\* has an edit has both confidence and reasoning set on it.
C10_ConfidenceAndReasoningSet ==
  pipelinePc = "done" /\ Truthy(Get(currentResponse, <<"edit">>))
    => /\ Truthy(Get(Get(currentResponse, <<"edit">>), <<"confidence">>))
       /\ Truthy(Get(Get(currentResponse, <<"edit">>), <<"reasoning">>))

\* ------------------------------------------------------------ claim C11

\* The keywords of lines 111-118.
Keywords ==
  {"Current Value", "Revenue Efficiency", "tied up in inventory", "assets",
   "Total", "Average", "Count", "Sum"}

\* A string of more than 15 characters with no = and with a keyword.
DescriptiveCell(cell) ==
  /\ cell.t = "string"
  /\ Length(cell.v) > 15
  /\ ~Includes(cell.v, "=")
  /\ \E w \in Keywords : Includes(cell.v, w)

\* response is an update_range instruction with a 2-D values array that
\* holds a descriptive cell.
DescriptiveRange(response) ==
  LET edit == Get(response, <<"edit">>)
      values == Get(edit, <<"values">>)
  IN /\ Is(Get(edit, <<"type">>), "update_range")
     /\ values.t = "array"
     /\ \A r \in 1..Len(values.v) : values.v[r].t = "array"
     /\ \E r \in 1..Len(values.v) :
          \E c \in 1..Len(values.v[r].v) : DescriptiveCell(values.v[r].v[c])

\* The range of the instruction is absent or a string.
RangeIsText(response) ==
  Get(Get(response, <<"edit">>), <<"range">>).t \in {"undefined", "null", "string"}

\* response holds an update_formula edit whose formula begins with =.
FormulaEdit(response) ==
  LET edit == Get(response, <<"edit">>)
      formula == Get(edit, <<"formula">>)
  IN /\ Is(Get(edit, <<"type">>), "update_formula")
     /\ formula.t = "string" /\ formula.v # <<>> /\ formula.v[1] = "="

Extent(doc) ==
  LET ends == {doc.content[k] : k \in 1..Len(doc.content)} \ {0}
  IN IF ~doc.body \/ ends = {} THEN 1
     ELSE CHOOSE e \in ends \cup {1} : \A f \in ends \cup {1} : f <= e

\* The calls of rewrite_document among calls: the batches that end with an
\* insertText.
IsRewrite(call) ==
  /\ call.api = "docs.documents.batchUpdate"
  /\ call.requests[Len(call.requests)].kind = "insertText"

\* requests is one insertText at index 1.
InsertOnly(requests) ==
  /\ Len(requests) = 1
  /\ requests[1].kind = "insertText" /\ requests[1].startIndex = 1

\* requests is one deleteContentRange [1, extent - 1) and then one
\* insertText at index 1.
DeleteThenInsert(requests, extent) ==
  /\ Len(requests) = 2
  /\ requests[1].kind = "deleteContentRange"
  /\ requests[1].startIndex = 1 /\ requests[1].endIndex = extent - 1
  /\ requests[2].kind = "insertText" /\ requests[2].startIndex = 1

\* C12: the batch rewrite_document sends for a document of extent at most 2
\* is one insertText at index 1; for a larger extent it is one
\* deleteContentRange [1, extent - 1) followed by one insertText at index 1;
\* no deleteContentRange has endIndex <= startIndex.
C12_RewriteBatch ==
  [][\A k \in (Len(driveCalls) + 1)..Len(driveCalls') :
       IsRewrite(driveCalls'[k])
         => /\ IF Extent(driveDocument) <= 2
                 THEN InsertOnly(driveCalls'[k].requests)
                 ELSE DeleteThenInsert(driveCalls'[k].requests, Extent(driveDocument))
            /\ \A r \in 1..Len(driveCalls'[k].requests) :
                 driveCalls'[k].requests[r].kind = "deleteContentRange"
                   => driveCalls'[k].requests[r].endIndex
                        > driveCalls'[k].requests[r].startIndex]_vars

\* A rewrite has deleted the content of a document and inserted the new one.
C12_Witness ==
  \E k \in 1..Len(driveCalls) :
    /\ IsRewrite(driveCalls[k])
    /\ Len(driveCalls[k].requests) = 2
    /\ driveCalls[k].requests[1].kind = "deleteContentRange"
    /\ driveCalls[k].requests[1].endIndex = 8

\* ------------------------------------------------------------ claims C13 to C15

\* The paragraphs, numbered from 0, whose text holds needle.
Holding(content, needle) ==
  {p \in 0..(Len(content) - 1) : IncludesText(content[p + 1], needle)}

\* The paragraphs, numbered from 0, whose normalized text holds the
\* normalized findText.
HoldingNormalized(content, findText) ==
  {p \in 0..(Len(content) - 1) :
     IncludesText(NormalizeWs(content[p + 1]), NormalizeWs(findText))}

\* offset is where needle first occurs in text.
FirstOccurrence(text, needle, offset) ==
  /\ offset >= 0
  /\ SubSeq(text, offset + 1, offset + Len(needle)) = needle
  /\ \A k \in 0..(offset - 1) : SubSeq(text, k + 1, k + Len(needle)) # needle

\* C13: when findText occurs as it is in exactly one paragraph, the match
\* is that paragraph, the offset of the first occurrence in it, the length
\* of findText and confidence high.
C13_ExactMatch ==
  locatorPc = "done" /\ Cardinality(Holding(locatorContent, locatorFindText)) = 1
    => /\ locatorMatch.paragraphIndex \in Holding(locatorContent, locatorFindText)
       /\ FirstOccurrence(locatorContent[locatorMatch.paragraphIndex + 1],
                          locatorFindText, locatorMatch.index)
       /\ locatorMatch.length = Len(locatorFindText)
       /\ locatorMatch.confidence = "high"

\* An exact match in the second of two paragraphs, after the start of a
\* text that holds findText twice.
C13_Witness ==
  /\ locatorPc = "done"
  /\ Holding(locatorContent, locatorFindText) = {1}
  /\ locatorFindText # <<>>
  /\ locatorContent[2] = <<"b", " ", "a", " ", "b">>
  /\ locatorFindText = <<"b">>
  /\ locatorMatch.confidence = "high"

\* C14: when no paragraph holds findText as it is and exactly one holds it
\* after whitespace is normalized in both, the match is that paragraph with
\* confidence medium.
C14_NormalizedMatch ==
  (/\ locatorPc = "done"
   /\ Holding(locatorContent, locatorFindText) = {}
   /\ Cardinality(HoldingNormalized(locatorContent, locatorFindText)) = 1)
    => /\ locatorMatch.paragraphIndex
            \in HoldingNormalized(locatorContent, locatorFindText)
       /\ locatorMatch.confidence = "medium"

\* The paragraph "a  b" found from the hint "a b".
C14_Witness ==
  /\ locatorPc = "done"
  /\ locatorFindText = <<"a", " ", "b">>
  /\ locatorContent = << <<"b">>, <<"a", " ", " ", "b">> >>
  /\ locatorMatch.paragraphIndex = 1
  /\ locatorMatch.confidence = "medium"

\* C15: the length of a match is at most the length of the text of the
\* paragraph the match names.
C15_LengthWithinParagraph ==
  locatorPc = "done" /\ locatorMatch # NoMatch
    => /\ locatorMatch.paragraphIndex \in 0..(Len(locatorContent) - 1)
       /\ locatorMatch.length <= Len(locatorContent[locatorMatch.paragraphIndex + 1])

\* A match of the second pass, by a findText longer than the paragraph.
C15_Witness ==
  /\ locatorPc = "done"
  /\ locatorMatch # NoMatch
  /\ locatorMatch.confidence = "medium"
  /\ Len(locatorFindText) > Len(locatorContent[locatorMatch.paragraphIndex + 1])

\* ------------------------------------------------------------ claims C16 to C19

\* The texts of the paragraphs of the document the page shows.
Paragraphs(shown) ==
  IF shown = <<>> \/ Get(shown[1], <<"content">>).t # "array" THEN <<>>
  ELSE [k \in 1..Len(Get(shown[1], <<"content">>).v) |->
          Get(shown[1], <<"content">>).v[k].v]

\* The proposal an accept request was sent for.
ProposalOf(x) == x.chatHistory[Find(x.chatHistory, x.messageId)].editProposal

\* No strategy of the locator finds the findText of the proposal in the
\* document the page shows.
Unlocatable(shown, editProposal) ==
  /\ Get(editProposal, <<"findText">>).t = "string"
  /\ findTextWithFuzzyMatching(Paragraphs(shown), Get(editProposal, <<"findText">>).v)
       = NoMatch

\* C16: no step sends a mutation request for a replace, insert or delete
\* proposal whose findText the locator cannot find in the document shown,
\* and no step marks such a proposal accepted.
C16_UnlocatableNotApplied ==
  [][\A x \in driveRequests' \ driveRequests :
       (/\ x.kind = "accept"
        /\ \E type \in {"replace", "insert", "delete"} :
             Is(Get(ProposalOf(x), <<"type">>), type))
         => ~Unlocatable(documentContent, ProposalOf(x))]_vars

\* The status of the proposal of a message.
StatusOf(message) == Get(message.editProposal, <<"status">>)

\* The step is a click on the Reject button of message i.
Rejects(i) ==
  /\ i \in 1..Len(chatHistory)
  /\ ShowsButtons(chatHistory[i])
  /\ chatHistory' = WithStatus(chatHistory, chatHistory[i].id, "rejected")
  /\ pendingEdit' = <<>>
  /\ UNCHANGED <<clock, selectedFile, documentContent, loading, isLoading,
                 chatRequest, driveRequests, driveCalls, driveDocument, spent>>

\* C17: a click on Reject sends no request, leaves the document shown, the
\* selected file and every other message as they are, sets the status of
\* the proposal of that message to rejected and clears the preview.
C17_RejectFrame ==
  [][\A i \in 1..Len(chatHistory) :
       Rejects(i)
         => /\ driveRequests' = driveRequests
            /\ driveCalls' = driveCalls
            /\ documentContent' = documentContent
            /\ selectedFile' = selectedFile
            /\ Len(chatHistory') = Len(chatHistory)
            /\ \A k \in 1..Len(chatHistory) : k # i => chatHistory'[k] = chatHistory[k]
            /\ Is(StatusOf(chatHistory'[i]), "rejected")
            /\ pendingEdit' = <<>>]_vars

\* The accept request x leaves without a response that is OK.
AcceptFailed(x) ==
  /\ x \in driveRequests
  /\ x.kind = "accept"
  /\ \A y \in driveRequests' : y.n # x.n
  /\ x.res = <<>> \/ ~IsOk(x.res[1])

\* The accept request x leaves with a response that is OK.
AcceptSucceeded(x) ==
  /\ x \in driveRequests
  /\ x.kind = "accept"
  /\ \A y \in driveRequests' : y.n # x.n
  /\ x.res # <<>> /\ IsOk(x.res[1])

\* Message k of history holds a proposal that is accepted.
AcceptedAt(history, k) ==
  /\ k \in 1..Len(history)
  /\ Truthy(Get(history[k].editProposal, <<"type">>))
  /\ Is(StatusOf(history[k]), "accepted")

\* C18: the messages are as they were after an accept request that failed,
\* so a proposal that was pending still is and shows its buttons; and a
\* proposal becomes accepted only in a step that ends an accept request
\* with an OK response, a request sent for a message of its id or sent
\* when the proposal was accepted already.
C18_FailedAcceptStaysPending ==
  [][/\ \A x \in driveRequests : AcceptFailed(x) => chatHistory' = chatHistory
     /\ \A k \in 1..Len(chatHistory') :
          AcceptedAt(chatHistory', k) /\ ~AcceptedAt(chatHistory, k)
            => \E x \in driveRequests :
                 /\ AcceptSucceeded(x)
                 /\ x.messageId = chatHistory'[k].id \/ AcceptedAt(x.chatHistory, k)]_vars

\* The request to accept a proposal was answered with an error and the
\* proposal shows its buttons.
C18_Witness ==
  \E x \in driveRequests :
    /\ x.kind = "accept"
    /\ x.res # <<>> /\ ~IsOk(x.res[1])
    /\ \E k \in 1..Len(chatHistory) :
         chatHistory[k].id = x.messageId /\ ShowsButtons(chatHistory[k])

\* C19: a proposal is created pending, and one that is accepted or rejected
\* keeps that status in every step.
C19_StatusIsFinal ==
  [][/\ \A k \in 1..Len(chatHistory) :
          (/\ \E status \in {"accepted", "rejected"} : Is(StatusOf(chatHistory[k]), status)
           /\ k <= Len(chatHistory'))
            => StatusOf(chatHistory'[k]) = StatusOf(chatHistory[k])
     /\ \A k \in (Len(chatHistory) + 1)..Len(chatHistory') :
          Truthy(chatHistory'[k].editProposal)
            => Is(StatusOf(chatHistory'[k]), "pending")]_vars

\* ------------------------------------------------------------ claim C20

\* The requests googleDriveOperations answers in this step with an error.
AnsweredWithError ==
  {x \in driveRequests' : x \notin driveRequests /\ x.res # <<>> /\ ~IsOk(x.res[1])}

\* C20: googleDriveOperations makes at most one mutation request for a
\* request it handles, and none of a request it answers with an error has
\* been applied.
C20_OneMutationRequest ==
  [][/\ Len(driveCalls') <= Len(driveCalls) + 1
     /\ AnsweredWithError # {} => driveCalls' = driveCalls]_vars

\* ------------------------------------------------------------ claim C21

\* The referee failed: its call threw, its reply does not parse, or what
\* the reply parses to holds no corrected response.
RefereeFailed(call) ==
  \/ call.threw
  \/ ~JSONParse(ExtractFromCodeBlock(Trim(call.reply))).ok
  \/ ~Truthy(Get(JSONParse(ExtractFromCodeBlock(Trim(call.reply))).val,
                 <<"correctedResponse">>))

\* C21: after step 1 with a referee that failed, validateAndFixResponse
\* has reported the response as valid and the pipeline is at its next pass
\* with the original response, nothing counted as corrected and step 1
\* logged as passed.
C21_RefereeFailsOpen ==
  pipelinePc = "patterns" /\ RefereeFailed(referee)
    => /\ validateAndFixResponse(originalResponse, referee).isValid
       /\ currentResponse = originalResponse
       /\ ~wasCorrected
       /\ processingSteps = << <<"Step 1: Multi-Model Validation">>,
                               <<"Validation", " passed">> >>

\* Step 1 is over for a response with an edit and a referee whose call threw.
C21_Witness ==
  /\ pipelinePc = "patterns"
  /\ referee.threw
  /\ Truthy(Get(originalResponse, <<"edit">>))
  /\ currentResponse = originalResponse

\* ------------------------------------------------------------ claim C22

\* C22: no two accept requests for the proposal of one message are in
\* flight, and no accept request is sent for a proposal that has a request
\* in flight.
C22_OneRequestPerProposal ==
  \A x, y \in driveRequests :
    x.kind = "accept" /\ y.kind = "accept" /\ x.messageId = y.messageId => x = y

\* C23: a POST request without a valid Bearer token causes no outbound call,
\* at every HTTP endpoint of the functions module.
C23_NoOutboundCallWithoutToken ==
  (/\ endpointPc = "done"
   /\ endpointRequest.method = "POST"
   /\ endpointRequest.authorization # "valid")
  => outbound = <<>>

\* ------------------------------------------------------------ claims C24 and C28

\* The core text of findText: its normalized text without the first and
\* the last word, for a text of more than two words.
CoreText(findText) ==
  Join(SubSeq(Split(NormalizeWs(findText), <<>>), 2,
              Len(Split(NormalizeWs(findText), <<>>)) - 1))

\* The paragraphs, numbered from 0, that hold the core text of findText.
HoldingCore(content, findText) ==
  IF Len(Split(NormalizeWs(findText), <<>>)) > 2
    THEN Holding(content, CoreText(findText))
    ELSE {}

\* The least number of a nonempty set of numbers.
Lowest(S) == CHOOSE p \in S : \A q \in S : p <= q

\* match is a hit in the lowest paragraph of hits, of the given length and
\* confidence.
FirstHit(match, hits, length, confidence) ==
  /\ match.paragraphIndex = Lowest(hits)
  /\ match.length = length
  /\ match.confidence = confidence

\* C24: the match returned is the hit in the lowest paragraph of the
\* earliest strategy (exact, whitespace-normalized, core text) with any
\* hit, with the length and the confidence of that strategy; with no hit
\* of any strategy there is no match.
C24_EarliestStrategyFirstHit ==
  locatorPc = "done"
    => IF Holding(locatorContent, locatorFindText) # {}
         THEN FirstHit(locatorMatch, Holding(locatorContent, locatorFindText),
                       Len(locatorFindText), "high")
       ELSE IF HoldingNormalized(locatorContent, locatorFindText) # {}
         THEN FirstHit(locatorMatch, HoldingNormalized(locatorContent, locatorFindText),
                       Len(NormalizeWs(locatorFindText)), "medium")
       ELSE IF HoldingCore(locatorContent, locatorFindText) # {}
         THEN FirstHit(locatorMatch, HoldingCore(locatorContent, locatorFindText),
                       Len(CoreText(locatorFindText)), "medium")
       ELSE locatorMatch = NoMatch

\* Two paragraphs hold findText as it is, so the later passes run and push
\* their own hits; the match is the exact hit in the first paragraph.
C24_Witness ==
  /\ locatorPc = "done"
  /\ Holding(locatorContent, locatorFindText) = {0, 1}
  /\ HoldingNormalized(locatorContent, locatorFindText) # {}
  /\ locatorFindText # <<>>
  /\ locatorMatch.paragraphIndex = 0
  /\ locatorMatch.confidence = "high"

\* C28: the offset and the length of a match delimit a span inside the
\* paragraph the match names.
C28_SpanInsideParagraph ==
  locatorPc = "done" /\ locatorMatch # NoMatch
    => /\ locatorMatch.paragraphIndex \in 0..(Len(locatorContent) - 1)
       /\ 0 <= locatorMatch.index
       /\ locatorMatch.index + locatorMatch.length
            <= Len(locatorContent[locatorMatch.paragraphIndex + 1])

\* ------------------------------------------------------------ claims C25 to C27

\* The cells of the rows of an update_range instruction, a set of pairs of
\* row and column; {} for any other response.
Cells(response) ==
  IF /\ Is(Get(Get(response, <<"edit">>), <<"type">>), "update_range")
     /\ Get(Get(response, <<"edit">>), <<"values">>).t = "array"
    THEN UNION {{<<r, c>> : c \in 1..Len(Get(Get(response, <<"edit">>), <<"values">>).v[r].v)} :
                  r \in {k \in 1..Len(Get(Get(response, <<"edit">>), <<"values">>).v) :
                           Get(Get(response, <<"edit">>), <<"values">>).v[k].t = "array"}}
    ELSE {}

\* The cell of response at row and column rc.
CellAt(response, rc) == Get(Get(response, <<"edit">>), <<"values">>).v[rc[1]].v[rc[2]]

\* C25: the pattern step rewrites an update_range instruction only if one
\* of its cells is a string of more than 15 characters with no = and with
\* a descriptive keyword; any other instruction it leaves as it is.
C25_OnlyDescriptiveCellsRewritten ==
  [][pipelinePc = "patterns" /\ currentResponse' # currentResponse
       => \E rc \in Cells(currentResponse) : DescriptiveCell(CellAt(currentResponse, rc))]_vars

\* The sheet a range names: the text before its !, none without one.
SheetOf(range) ==
  IF IndexOf(range, "!") = 0 THEN <<>> ELSE Slice(range, 1, IndexOf(range, "!") - 1)

\* The cells of a range without its sheet, as column and row.
BoxOf(range) == Slice(range, IndexOf(range, "!") + 1, Len(range))

\* The number of the column with the letter, and of the row with the digit.
ColumnNumberOf(letter) == CHOOSE col \in 1..6 : ColumnLetter(col) = letter

RowNumberOf(digit) == CHOOSE row \in 1..9 : RowNumber(row) = digit

\* cell is an address inside the range, on the sheet the range names, with
\* no sheet when the range names none; the range has a box of the form
\* C5:D6.
InsideRange(cell, range) ==
  /\ SheetOf(cell) = SheetOf(range)
  /\ Len(BoxOf(cell)) = 2
  /\ ColumnNumberOf(BoxOf(cell)[1]) \in ColumnNumberOf(BoxOf(range)[1])..ColumnNumberOf(BoxOf(range)[4])
  /\ RowNumberOf(BoxOf(cell)[2]) \in RowNumberOf(BoxOf(range)[2])..RowNumberOf(BoxOf(range)[5])

\* C26: when the pattern step rewrites an update_range instruction whose
\* range is a text such as C5:D6 or Sheet1!C5:D6, the cell of the
\* update_formula lies inside that range and names the sheet of the range.
C26_CellInsideOwnRange ==
  [][(/\ pipelinePc = "patterns"
      /\ currentResponse' # currentResponse
      /\ Get(Get(currentResponse, <<"edit">>), <<"range">>).t = "string")
       => InsideRange(Get(Get(currentResponse', <<"edit">>), <<"cell">>).v,
                      Get(Get(currentResponse, <<"edit">>), <<"range">>).v)]_vars

\* response is an update_formula instruction whose formula is a string
\* that is not empty.
HasFormula(response) ==
  /\ Is(Get(Get(response, <<"edit">>), <<"type">>), "update_formula")
  /\ Get(Get(response, <<"edit">>), <<"formula">>).t = "string"
  /\ Get(Get(response, <<"edit">>), <<"formula">>).v # <<>>

\* The text of the formula of response.
FormulaOf(response) == Get(Get(response, <<"edit">>), <<"formula">>).v

\* C27: after the formula step on an update_formula instruction with a
\* formula that is not empty the formula begins with =, and a formula that
\* held the keyword Current Value or Revenue Efficiency has been replaced
\* by the template of generateFormulaFromText, with or without a leading =.
C27_FormulaResynthesized ==
  [][pipelinePc = "formulas" /\ HasFormula(currentResponse)
       => /\ HasFormula(currentResponse')
          /\ FormulaOf(currentResponse')[1] = "="
          /\ (Includes(FormulaOf(currentResponse), "Current Value")
                \/ Includes(FormulaOf(currentResponse), "Revenue Efficiency")
              => FormulaOf(currentResponse')
                   = generateFormulaFromText(FormulaOf(currentResponse)))]_vars

\* ------------------------------------------------------------ claim C29

\* C29: once no load is in flight the document shown is the one of the
\* selected file.
C29_ShownIsSelected ==
  (/\ selectedFile # <<>>
   /\ documentContent # <<>>
   /\ ~\E x \in driveRequests : x.kind = "load")
    => Get(documentContent[1], <<"documentId">>) = StringValue(<<selectedFile[1].id>>)

\* ------------------------------------------------------------ claim C30

\* C30: a list_files request is never aborted by a run of the load effect
\* that the request's own setLastRequestTime has caused.
C30_NotAbortedByOwnUpdate ==
  \A x \in listRequests :
    x.state \in {"cancelled", "aborted"} => x.n \notin x.by.causes

====
